---- MODULE Spec2Model ----
(***************************************************************************)
(* Model of the monochrome backend's download pipeline:                    *)
(*   DownloadService (downloadTrack, getStatus, getCachedFile,             *)
(*   resolveDownloadQuality, resolveOutputPath), CacheService (checkCache, *)
(*   checkAnyCache, saveCache, removeFileRecord), APIService               *)
(*   (fetchWithRetry, getTrack, decodeManifest,                            *)
(*   extractStreamUrlFromDecodedManifest) and DashDownloader               *)
(*   (downloadDashStream), and of the player's listen tracker              *)
(*   (ExposedManager).                                                     *)
(*                                                                         *)
(* Scheduling: Node's single-threaded event loop.  A handler runs without  *)
(* interruption until it awaits an operation that really suspends (a file  *)
(* system call, a network request, a timer).  Awaiting an async function   *)
(* whose body is synchronous (the sqlite statements of node:sqlite's       *)
(* DatabaseSync, getPreferences, saveCache) resumes in the same microtask  *)
(* drain, before any other I/O callback, so such a stretch is one action.  *)
(* The sqlite statements themselves are taken to complete.                 *)
(***************************************************************************)
EXTENDS Integers, Sequences, FiniteSets, TLC

VARIABLES
    calls,                  \* per call: method, arguments, locals, position, result
    activeDownloads,        \* DownloadService.activeDownloads (keys of the Map)
    activeMetadataRefresh,  \* DownloadService.activeMetadataRefresh
    filesTable,             \* rows of the sqlite table "files"
    disk,                   \* paths that exist under the storage root
    downloadQuality,        \* admin_settings.download_quality
    metadata,               \* track ids whose track/album/artist metadata is stored
    now,                    \* clock behind downloaded_at
    deletes,                \* external file deletions so far
    prefChanges,            \* admin preference updates so far
    fw,                     \* one APIService.fetchWithRetry call
    rp,                     \* one DownloadService.resolveOutputPath call
    sr,                     \* one request of the stream route
    tb,                     \* one DownloadService.fetchTrackBuffer call, with the
                            \* DashDownloader.downloadDashStream call it makes
    em                      \* the player's ExposedManager, its interval timers
                            \* and the listens it has logged

vars == <<calls, activeDownloads, activeMetadataRefresh, filesTable, disk,
          downloadQuality, metadata, now, deletes, prefChanges, fw, rp, sr, tb, em>>

coordVars == <<calls, activeDownloads, activeMetadataRefresh, filesTable, disk,
               downloadQuality, metadata, now, deletes, prefChanges, rp, sr, tb, em>>

----------------------------------------------------------------------------
(* Bounds of the model *)

MaxCalls == 3
MaxDeletes == 1
MaxPrefChanges == 1
MaxInstances == 2
MaxQueries == 1
\* media segments of a DASH manifest
MaxSegments == 5

Calls == 1..MaxCalls

(* Inputs *)

TrackIds == {"1"}
\* the quality argument of a call; "" stands for none given (undefined)
RequestedQualities == {"", "LOSSLESS"}
\* values PUT /preferences stores in admin_settings.download_quality
DownloadQualityValues == {"player", "HIGH"}

DEFAULT_QUALITY == "HI_RES_LOSSLESS"
PASSTHROUGH == "player"

NoPath == "<none>"
\* null and undefined
Null == [null |-> TRUE]

\* the loop bound of resolveOutputPath: for (index = 2; index < 1000; ...)
IndexLimit == 1000

----------------------------------------------------------------------------
(* Pure functions *)

\* CacheService.normalizeTrackId: String(trackId).trim()
normalizeTrackId(trackId) ==
    CASE trackId = " 1" -> "1"
      [] trackId = "1 " -> "1"
      [] OTHER -> trackId

\* DownloadService.getDownloadKey: `${trackId}_${quality}`
getDownloadKey(trackId, quality) == trackId \o "_" \o quality

\* mutant: the caller's quality wins over the stored preference
resolveRequestedFirst(preferredQuality, requestedQuality) ==
    IF requestedQuality # "" THEN requestedQuality
    ELSE IF preferredQuality # "" /\ preferredQuality # PASSTHROUGH
    THEN preferredQuality ELSE DEFAULT_QUALITY

\* DownloadService.resolveDownloadQuality, given the stored preference
resolveDownloadQuality(preferredQuality, requestedQuality) ==
    IF preferredQuality # "" /\ preferredQuality # PASSTHROUGH
    THEN preferredQuality
    ELSE IF requestedQuality # "" THEN requestedQuality ELSE DEFAULT_QUALITY

\* the rendered, sanitised file name of a track (buildFilename), without extension
RenderedName(trackId) == "Artist/Album/Title"

\* the candidates resolveOutputPath tries, in order: index 0 is the rendered
\* path, 1 is name-<trackId>, n >= 2 is name-<trackId>-<n>
Candidate(trackId, index) ==
    CASE index = 0 -> RenderedName(trackId) \o ".flac"
      [] index = 1 -> RenderedName(trackId) \o "-" \o trackId \o ".flac"
      [] OTHER -> RenderedName(trackId) \o "-" \o trackId \o "-" \o ToString(index) \o ".flac"

----------------------------------------------------------------------------
(* CacheService over the table "files" *)

\* SELECT ... WHERE track_id = ? AND quality = ?
SelectRows(trackId, quality) ==
    {r \in filesTable : r.track_id = normalizeTrackId(trackId) /\ r.quality = quality}

\* mutant: DELETE FROM files WHERE track_id = ?, whatever the quality
removeFileRecordAnyQuality(table, trackId, quality) ==
    {r \in table : r.track_id # normalizeTrackId(trackId)}

\* CacheService.removeFileRecord
removeFileRecord(table, trackId, quality) ==
    {r \in table : ~(r.track_id = normalizeTrackId(trackId) /\ r.quality = quality)}

\* mutant: a plain INSERT; a conflict throws and saveCache's catch swallows it
saveCacheInsertOnly(table, trackId, quality, filePath, at, by) ==
    IF \E r \in table : r.track_id = normalizeTrackId(trackId) /\ r.quality = quality
    THEN table
    ELSE table \cup {[track_id |-> normalizeTrackId(trackId), quality |-> quality,
                      file_path |-> filePath, downloaded_at |-> at, by |-> by]}

\* mutant: a plain INSERT into a table without UNIQUE(track_id, quality)
saveCacheAppend(table, trackId, quality, filePath, at, by) ==
    table \cup {[track_id |-> normalizeTrackId(trackId), quality |-> quality,
                 file_path |-> filePath, downloaded_at |-> at, by |-> by]}

\* CacheService.saveCache: INSERT ... ON CONFLICT(track_id, quality) DO UPDATE
saveCache(table, trackId, quality, filePath, at, by) ==
    removeFileRecord(table, trackId, quality) \cup
        {[track_id |-> normalizeTrackId(trackId), quality |-> quality,
          file_path |-> filePath, downloaded_at |-> at, by |-> by]}

\* SELECT file_path, quality ... WHERE track_id = ? ORDER BY downloaded_at DESC
RECURSIVE OrderByDownloadedAtDesc(_)
OrderByDownloadedAtDesc(rows) ==
    IF rows = {} THEN <<>>
    ELSE LET newest == CHOOSE r \in rows : \A o \in rows : o.downloaded_at <= r.downloaded_at
         IN  <<newest>> \o OrderByDownloadedAtDesc(rows \ {newest})

\* mutant: ORDER BY downloaded_at ASC
SelectTrackRowsOldestFirst(table, trackId) ==
    LET rows == OrderByDownloadedAtDesc({r \in table : r.track_id = normalizeTrackId(trackId)})
    IN  [i \in 1..Len(rows) |-> rows[Len(rows) + 1 - i]]

SelectTrackRows(table, trackId) ==
    OrderByDownloadedAtDesc({r \in table : r.track_id = normalizeTrackId(trackId)})

----------------------------------------------------------------------------
(* Calls *)

IdleCall ==
    [method |-> "", pc |-> "idle", trackId |-> "", quality |-> "",
     resolvedQuality |-> "", preferredQuality |-> "", cached |-> NoPath,
     filePath |-> NoPath, index |-> 0, marked |-> FALSE,
     fallback |-> FALSE, rows |-> <<>>,
     status |-> "", path |-> NoPath, net |-> {},
     body |-> Null, response |-> Null]

Init ==
    /\ em = [pc |-> "off"]
    /\ calls = [c \in Calls |-> IdleCall]
    /\ activeDownloads = {}
    /\ activeMetadataRefresh = {}
    /\ filesTable = {}
    /\ disk = {}
    /\ downloadQuality = PASSTHROUGH
    /\ metadata = {}
    /\ now = 0
    /\ deletes = 0
    /\ prefChanges = 0
    /\ fw = [pc |-> "off"]
    /\ rp = [pc |-> "off"]
    /\ sr = [pc |-> "off"]
    /\ tb = [pc |-> "off"]

----------------------------------------------------------------------------
(* DownloadService.downloadTrack *)

Started(c) == calls[c].pc # "idle"
CanStart(c) == calls[c].pc = "idle" /\ (IF c = 1 THEN TRUE ELSE Started(c - 1))

\* mutant: no finally, the key is never deleted
FinallyKeepsKey(ledger, downloadKey) == ledger

\* the `finally` of downloadTrack: this.activeDownloads.delete(downloadKey)
Finally(ledger, downloadKey) == ledger \ {downloadKey}

\* "Mark as downloading": this.activeDownloads.set(downloadKey, true)
MarkDownloading(ledger, downloadKey) == ledger \cup {downloadKey}

DownloadKeyOf(c) == getDownloadKey(calls[c].trackId, calls[c].resolvedQuality)

\* a return or a throw from inside the try block: the result, then the finally
Return(c, r, status, path) ==
    /\ calls' = [calls EXCEPT ![c] = [r EXCEPT !.pc = "done", !.status = status, !.path = path,
                                                !.cached = NoPath, !.index = 0]]
    /\ activeDownloads' = Finally(activeDownloads, getDownloadKey(r.trackId, r.resolvedQuality))

\* the step after a confirmed miss: mark the key, create the APIService and
\* issue the track lookup (fetchTrackBuffer -> getTrack -> fetchWithRetry)
BeginFetch(c, r) ==
    /\ calls' = [calls EXCEPT ![c] =
                    [r EXCEPT !.pc = "getTrack", !.marked = TRUE, !.net = @ \cup {"track"}]]
    /\ activeDownloads' = MarkDownloading(activeDownloads, getDownloadKey(r.trackId, r.resolvedQuality))

\* downloadTrack is called by a caller whose record is r; with instances it
\* awaits ensureStorageDir (fs.mkdir)
DownloadTrackFrom(c, r, trackId, quality, instances) ==
    /\ CanStart(c)
    /\ IF instances = 0
       THEN \* throw new Error('API instances are required'), before the try
            calls' = [calls EXCEPT ![c] = [r EXCEPT !.method = "downloadTrack",
                        !.trackId = trackId, !.quality = quality,
                        !.pc = "done", !.status = "error"]]
       ELSE calls' = [calls EXCEPT ![c] = [r EXCEPT !.method = "downloadTrack",
                        !.trackId = trackId, !.quality = quality,
                        !.pc = "ensureStorageDir"]]
    /\ UNCHANGED <<activeDownloads, activeMetadataRefresh, filesTable, disk,
                   downloadQuality, metadata, now, deletes, prefChanges, fw, rp, sr, tb, em>>

\* downloadTrack called by itself
DownloadTrack(c, trackId, quality, instances) ==
    DownloadTrackFrom(c, IdleCall, trackId, quality, instances)

\* fs.mkdir of the storage root completes; on success the call resolves the
\* quality, looks at the ledger, then at the index (lines 629-641)
EnsureStorageDirDone(c, ok) ==
    /\ calls[c].method = "downloadTrack" /\ calls[c].pc = "ensureStorageDir"
    /\ LET resolved == resolveDownloadQuality(downloadQuality, calls[c].quality)
           r == [calls[c] EXCEPT !.resolvedQuality = resolved,
                                 !.preferredQuality = downloadQuality]
           key == getDownloadKey(r.trackId, resolved)
           rows == SelectRows(r.trackId, resolved)
       IN  IF ~ok
           THEN \* ensureStorageDir rethrows, before the try: no finally
                /\ calls' = [calls EXCEPT ![c].pc = "done", ![c].status = "error"]
                /\ UNCHANGED activeDownloads
           ELSE IF key \in activeDownloads
           THEN Return(c, r, "downloading", NoPath)
           ELSE IF rows # {}
           THEN \* checkCache awaits fs.access(row.file_path)
                /\ calls' = [calls EXCEPT ![c] =
                        [r EXCEPT !.pc = "checkCache",
                                  !.cached = (CHOOSE row \in rows : TRUE).file_path]]
                /\ UNCHANGED activeDownloads
           ELSE BeginFetch(c, r)
    /\ UNCHANGED <<activeMetadataRefresh, filesTable, disk, downloadQuality,
                   metadata, now, deletes, prefChanges, fw, rp, sr, tb, em>>

\* the cached branch starts refreshMetadata when stored metadata is missing;
\* refreshMetadata returns at once when a refresh of the track is active
NeedsRefresh(trackId) == trackId \notin metadata
StartsRefresh(trackId) == NeedsRefresh(trackId) /\ trackId \notin activeMetadataRefresh

\* mutant: the existence check always fails
FileNeverAccessible(filePath, files) == FALSE

\* fs.access(row.file_path) of checkCache succeeds
FileAccessible(filePath, files) == filePath \in files

\* fs.access of checkCache completes (lines 37-45, then 642-659)
CheckCacheDone(c) ==
    /\ calls[c].method = "downloadTrack" /\ calls[c].pc = "checkCache"
    /\ LET r == calls[c] IN
       IF FileAccessible(r.cached, disk)
       THEN /\ Return(c, [r EXCEPT !.net = IF StartsRefresh(r.trackId)
                                           THEN @ \cup {"metadata"} ELSE @],
                      "cached", r.cached)
            /\ activeMetadataRefresh' = IF StartsRefresh(r.trackId)
                                        THEN activeMetadataRefresh \cup {r.trackId}
                                        ELSE activeMetadataRefresh
            /\ UNCHANGED filesTable
       ELSE /\ filesTable' = removeFileRecord(filesTable, r.trackId, r.resolvedQuality)
            /\ BeginFetch(c, [r EXCEPT !.cached = NoPath])
            /\ UNCHANGED activeMetadataRefresh
    /\ UNCHANGED <<disk, downloadQuality, metadata, now, deletes, prefChanges, fw, rp, sr, tb, em>>

\* the track lookup ends: a response with a DASH manifest or a stream URL, a
\* response from which no URL can be resolved, or a failure (instances
\* exhausted, malformed response)
GetTrackOutcomes == {"dash", "direct", "nourl", "exhausted", "malformed"}

GetTrackDone(c, outcome) ==
    /\ calls[c].method = "downloadTrack" /\ calls[c].pc = "getTrack"
    /\ IF outcome \in {"dash", "direct"}
       THEN /\ calls' = [calls EXCEPT ![c].pc = "fetchBuffer", ![c].net = @ \cup {"stream"}]
            /\ UNCHANGED activeDownloads
       ELSE Return(c, calls[c], "error", NoPath)
    /\ UNCHANGED <<activeMetadataRefresh, filesTable, disk, downloadQuality,
                   metadata, now, deletes, prefChanges, fw, rp, sr, tb, em>>

\* the stream GET or the segment assembly ends; on success resolveOutputPath
\* starts with its first fileExists
FetchBufferDone(c, ok) ==
    /\ calls[c].method = "downloadTrack" /\ calls[c].pc = "fetchBuffer"
    /\ IF ok
       THEN /\ calls' = [calls EXCEPT ![c].pc = "resolveOutputPath", ![c].index = 0]
            /\ UNCHANGED activeDownloads
       ELSE Return(c, calls[c], "error", NoPath)
    /\ UNCHANGED <<activeMetadataRefresh, filesTable, disk, downloadQuality,
                   metadata, now, deletes, prefChanges, fw, rp, sr, tb, em>>

\* one fileExists of resolveOutputPath completes; a free candidate is taken
\* (after fs.mkdir of its directory, which may fail), else the next is tried
ResolveOutputPathStep(c, mkdirOk) ==
    /\ calls[c].method = "downloadTrack" /\ calls[c].pc = "resolveOutputPath"
    /\ LET candidate == Candidate(calls[c].trackId, calls[c].index) IN
       IF candidate \in disk
       THEN /\ mkdirOk
            /\ calls' = IF calls[c].index + 1 < IndexLimit
                        THEN [calls EXCEPT ![c].index = @ + 1]
                        ELSE \* the loop has run out: `return candidate`
                             [calls EXCEPT ![c].pc = "enrichMetadata",
                                           ![c].filePath = Candidate(calls[c].trackId, 1),
                                           ![c].net = @ \cup {"metadata"}]
            /\ UNCHANGED activeDownloads
       ELSE IF mkdirOk
       THEN /\ calls' = [calls EXCEPT ![c].pc = "enrichMetadata", ![c].filePath = candidate,
                                      ![c].net = @ \cup {"metadata"}]
            /\ UNCHANGED activeDownloads
       ELSE Return(c, calls[c], "error", NoPath)
    /\ UNCHANGED <<activeMetadataRefresh, filesTable, disk, downloadQuality,
                   metadata, now, deletes, prefChanges, fw, rp, sr, tb, em>>

\* enrichMetadata ends (its failures are caught inside); writeFile is issued
EnrichMetadataDone(c, complete) ==
    /\ calls[c].method = "downloadTrack" /\ calls[c].pc = "enrichMetadata"
    /\ calls' = [calls EXCEPT ![c].pc = "writeFile"]
    /\ metadata' = IF complete THEN metadata \cup {calls[c].trackId} ELSE metadata
    /\ UNCHANGED <<activeDownloads, activeMetadataRefresh, filesTable, disk,
                   downloadQuality, now, deletes, prefChanges, fw, rp, sr, tb, em>>

\* mutant: saveCache is called before the write is known to have succeeded
RowsSavedBeforeWrite(ok, table, trackId, quality, filePath, at, by) ==
    saveCache(table, trackId, quality, filePath, at, by)

\* the rows after fs.writeFile ended: saveCache runs only after a successful write
RowsAfterWrite(ok, table, trackId, quality, filePath, at, by) ==
    IF ok THEN saveCache(table, trackId, quality, filePath, at, by) ELSE table

\* fs.writeFile completes; on success saveCache, then return 'downloaded'
WriteFileDone(c, ok) ==
    /\ calls[c].method = "downloadTrack" /\ calls[c].pc = "writeFile"
    /\ LET r == calls[c] IN
       /\ disk' = IF ok THEN disk \cup {r.filePath} ELSE disk
       /\ filesTable' = RowsAfterWrite(ok, filesTable, r.trackId, r.resolvedQuality,
                                       r.filePath, now + 1, c)
       /\ now' = IF ok THEN now + 1 ELSE now
       /\ IF ok
          THEN Return(c, r, "downloaded", r.filePath)
          ELSE Return(c, r, "error", NoPath)
    /\ UNCHANGED <<activeMetadataRefresh, downloadQuality, metadata,
                   deletes, prefChanges, fw, rp, sr, tb, em>>

\* the background refreshMetadata of a track ends
RefreshMetadataDone(trackId, complete) ==
    /\ trackId \in activeMetadataRefresh
    /\ activeMetadataRefresh' = activeMetadataRefresh \ {trackId}
    /\ metadata' = IF complete THEN metadata \cup {trackId} ELSE metadata
    /\ UNCHANGED <<calls, activeDownloads, filesTable, disk, downloadQuality,
                   now, deletes, prefChanges, fw, rp, sr, tb, em>>

----------------------------------------------------------------------------
(* DownloadService.getStatus and getCachedFile *)

Queries == Cardinality({c \in Calls : calls[c].method \in {"getStatus", "getCachedFile"}})

\* a result of a method without try/finally
Result(c, r, status, path) ==
    calls' = [calls EXCEPT ![c] = [r EXCEPT !.pc = "done", !.status = status, !.path = path,
                                             !.cached = NoPath, !.rows = <<>>]]

\* getStatus: resolve the quality, look at the ledger, then checkCache
GetStatus(c, trackId, quality) ==
    /\ CanStart(c) /\ Queries < MaxQueries
    /\ LET resolved == resolveDownloadQuality(downloadQuality, quality)
           r == [IdleCall EXCEPT !.method = "getStatus", !.trackId = trackId,
                                 !.quality = quality, !.resolvedQuality = resolved,
                                 !.preferredQuality = downloadQuality]
           rows == SelectRows(trackId, resolved)
       IN  IF getDownloadKey(trackId, resolved) \in activeDownloads
           THEN Result(c, r, "downloading", NoPath)
           ELSE IF rows # {}
           THEN calls' = [calls EXCEPT ![c] =
                    [r EXCEPT !.pc = "checkCache",
                              !.cached = (CHOOSE row \in rows : TRUE).file_path]]
           ELSE Result(c, r, "not_found", NoPath)
    /\ UNCHANGED <<activeDownloads, activeMetadataRefresh, filesTable, disk,
                   downloadQuality, metadata, now, deletes, prefChanges, fw, rp, sr, tb, em>>

\* fs.access of getStatus's checkCache completes
GetStatusCheckCacheDone(c) ==
    /\ calls[c].method = "getStatus" /\ calls[c].pc = "checkCache"
    /\ LET r == calls[c] IN
       IF FileAccessible(r.cached, disk)
       THEN /\ Result(c, r, "cached", r.cached)
            /\ UNCHANGED filesTable
       ELSE /\ filesTable' = removeFileRecord(filesTable, r.trackId, r.resolvedQuality)
            /\ Result(c, [r EXCEPT !.cached = NoPath], "not_found", NoPath)
    /\ UNCHANGED <<activeDownloads, activeMetadataRefresh, disk, downloadQuality,
                   metadata, now, deletes, prefChanges, fw, rp, sr, tb, em>>

\* mutant: no any-quality fallback after a miss of the exact lookup
AfterExactMissNoFallback(c, r, table) ==
    Result(c, [r EXCEPT !.cached = NoPath], "not_found", NoPath)

\* after a miss of the exact lookup: not_found, or checkAnyCache over the
\* track's rows, which awaits fs.access of the first row
AfterExactMiss(c, r, table) ==
    LET rows == SelectTrackRows(table, r.trackId) IN
    IF ~r.fallback \/ rows = <<>>
    THEN Result(c, [r EXCEPT !.cached = NoPath], "not_found", NoPath)
    ELSE calls' = [calls EXCEPT ![c] =
            [r EXCEPT !.pc = "checkAnyCache", !.cached = NoPath, !.rows = rows]]

\* getCachedFile: resolve the quality, then checkCache
GetCachedFileCall(c, trackId, quality, fallback) ==
    /\ CanStart(c) /\ Queries < MaxQueries
    /\ LET resolved == resolveDownloadQuality(downloadQuality, quality)
           r == [IdleCall EXCEPT !.method = "getCachedFile", !.trackId = trackId,
                                 !.quality = quality, !.resolvedQuality = resolved,
                                 !.preferredQuality = downloadQuality,
                                 !.fallback = fallback]
           rows == SelectRows(trackId, resolved)
       IN  IF rows # {}
           THEN calls' = [calls EXCEPT ![c] =
                    [r EXCEPT !.pc = "checkCache",
                              !.cached = (CHOOSE row \in rows : TRUE).file_path]]
           ELSE AfterExactMiss(c, r, filesTable)
    /\ UNCHANGED <<activeDownloads, activeMetadataRefresh, filesTable, disk,
                   downloadQuality, metadata, now, deletes, prefChanges, fw, rp, tb, em>>

\* getCachedFile called by itself
GetCachedFile(c, trackId, quality, fallback) ==
    GetCachedFileCall(c, trackId, quality, fallback) /\ UNCHANGED sr

\* fs.access of getCachedFile's checkCache completes
GetCachedFileCheckCacheDone(c) ==
    /\ calls[c].method = "getCachedFile" /\ calls[c].pc = "checkCache"
    /\ LET r == calls[c] IN
       IF FileAccessible(r.cached, disk)
       THEN /\ Result(c, r, "cached", r.cached)
            /\ UNCHANGED filesTable
       ELSE /\ filesTable' = removeFileRecord(filesTable, r.trackId, r.resolvedQuality)
            /\ AfterExactMiss(c, r, removeFileRecord(filesTable, r.trackId, r.resolvedQuality))
    /\ UNCHANGED <<activeDownloads, activeMetadataRefresh, disk, downloadQuality,
                   metadata, now, deletes, prefChanges, fw, rp, sr, tb, em>>

\* one fs.access of checkAnyCache completes
CheckAnyCacheStep(c) ==
    /\ calls[c].method = "getCachedFile" /\ calls[c].pc = "checkAnyCache"
    /\ LET r == calls[c]
           row == Head(r.rows)
       IN  IF FileAccessible(row.file_path, disk)
           THEN /\ Result(c, r, "cached", row.file_path)
                /\ UNCHANGED filesTable
           ELSE /\ filesTable' = removeFileRecord(filesTable, r.trackId, row.quality)
                /\ IF Tail(r.rows) = <<>>
                   THEN Result(c, [r EXCEPT !.rows = <<>>], "not_found", NoPath)
                   ELSE calls' = [calls EXCEPT ![c].rows = Tail(r.rows)]
    /\ UNCHANGED <<activeDownloads, activeMetadataRefresh, disk, downloadQuality,
                   metadata, now, deletes, prefChanges, fw, rp, sr, tb, em>>

----------------------------------------------------------------------------
(* The environment *)

\* a file under the storage root is removed out of band
DeleteFile(path) ==
    /\ deletes < MaxDeletes
    /\ path \in disk
    /\ disk' = disk \ {path}
    /\ deletes' = deletes + 1
    /\ UNCHANGED <<calls, activeDownloads, activeMetadataRefresh, filesTable,
                   downloadQuality, metadata, now, prefChanges, fw, rp, sr, tb, em>>

\* PUT /preferences stores a download quality
UpdatePreferences(value) ==
    /\ prefChanges < MaxPrefChanges
    /\ value # downloadQuality
    /\ downloadQuality' = value
    /\ prefChanges' = prefChanges + 1
    /\ UNCHANGED <<calls, activeDownloads, activeMetadataRefresh, filesTable,
                   disk, metadata, now, deletes, fw, rp, sr, tb, em>>

----------------------------------------------------------------------------

Next ==
    \/ \E c \in Calls, t \in TrackIds, q \in RequestedQualities, n \in {0, MaxInstances} :
            DownloadTrack(c, t, q, n)
    \/ \E c \in Calls, ok \in BOOLEAN : EnsureStorageDirDone(c, ok)
    \/ \E c \in Calls : CheckCacheDone(c)
    \/ \E c \in Calls, o \in GetTrackOutcomes : GetTrackDone(c, o)
    \/ \E c \in Calls, ok \in BOOLEAN : FetchBufferDone(c, ok)
    \/ \E c \in Calls, ok \in BOOLEAN : ResolveOutputPathStep(c, ok)
    \/ \E c \in Calls, m \in BOOLEAN : EnrichMetadataDone(c, m)
    \/ \E c \in Calls, ok \in BOOLEAN : WriteFileDone(c, ok)
    \/ \E t \in TrackIds, m \in BOOLEAN : RefreshMetadataDone(t, m)
    \/ \E c \in Calls, t \in TrackIds, q \in RequestedQualities : GetStatus(c, t, q)
    \/ \E c \in Calls : GetStatusCheckCacheDone(c)
    \/ \E c \in Calls, t \in TrackIds, q \in RequestedQualities, f \in BOOLEAN :
            GetCachedFile(c, t, q, f)
    \/ \E c \in Calls : GetCachedFileCheckCacheDone(c)
    \/ \E c \in Calls : CheckAnyCacheStep(c)
    \/ \E p \in disk : DeleteFile(p)
    \/ \E v \in DownloadQualityValues : UpdatePreferences(v)

Spec == Init /\ [][Next]_vars

\* the service starts over an index that kept a row of an earlier run whose
\* file was removed while the service was down
InitRestart ==
    /\ em = [pc |-> "off"]
    /\ calls = [c \in Calls |-> IdleCall]
    /\ activeDownloads = {}
    /\ activeMetadataRefresh = {}
    /\ filesTable = saveCache({}, "1", DEFAULT_QUALITY, Candidate("1", 0), 0, 0)
    /\ disk = {}
    /\ downloadQuality = PASSTHROUGH
    /\ metadata = {}
    /\ now = 0
    /\ deletes = 0
    /\ prefChanges = 0
    /\ fw = [pc |-> "off"]
    /\ rp = [pc |-> "off"]
    /\ sr = [pc |-> "off"]
    /\ tb = [pc |-> "off"]

RestartSpec == InitRestart /\ [][Next]_vars

\* every started operation completes: the fairness under which calls end
Progress(c) ==
    \/ \E ok \in BOOLEAN : EnsureStorageDirDone(c, ok)
    \/ CheckCacheDone(c)
    \/ \E o \in GetTrackOutcomes : GetTrackDone(c, o)
    \/ \E ok \in BOOLEAN : FetchBufferDone(c, ok)
    \/ \E ok \in BOOLEAN : ResolveOutputPathStep(c, ok)
    \/ \E m \in BOOLEAN : EnrichMetadataDone(c, m)
    \/ \E ok \in BOOLEAN : WriteFileDone(c, ok)
    \/ GetStatusCheckCacheDone(c)
    \/ GetCachedFileCheckCacheDone(c)
    \/ CheckAnyCacheStep(c)

FairSpec == Spec /\ \A c \in Calls : WF_vars(Progress(c))

----------------------------------------------------------------------------
(* Downloads of several tracks: the trackId is whatever string the request
   body carries *)

KeyTrackIds == {"1", "1_HI_RES"}

NextKey ==
    \/ \E c \in Calls, t \in KeyTrackIds, q \in RequestedQualities :
            DownloadTrack(c, t, q, MaxInstances)
    \/ \E c \in Calls, ok \in BOOLEAN : EnsureStorageDirDone(c, ok)
    \/ \E c \in Calls : CheckCacheDone(c)
    \/ \E c \in Calls, o \in GetTrackOutcomes : GetTrackDone(c, o)
    \/ \E c \in Calls, ok \in BOOLEAN : FetchBufferDone(c, ok)
    \/ \E c \in Calls, ok \in BOOLEAN : ResolveOutputPathStep(c, ok)
    \/ \E c \in Calls, m \in BOOLEAN : EnrichMetadataDone(c, m)
    \/ \E c \in Calls, ok \in BOOLEAN : WriteFileDone(c, ok)
    \/ \E t \in KeyTrackIds, m \in BOOLEAN : RefreshMetadataDone(t, m)

KeySpec == Init /\ [][NextKey]_vars

----------------------------------------------------------------------------
(* POST /trigger: requests as they arrive on the wire *)

MaxTriggers == 2

\* the quality field of a request body; "" stands for an absent field
WireQualities == {"", "player", "LOW"}
\* the trackId field of a request body; "" stands for an absent field
WireTrackIds == {"", "1"}
\* the apiInstances field of a request body
WireInstances == {<<>>, <<" ">>, <<"https://a", " ">>}

\* the qualities of ALLOWED_QUALITIES other than 'player'
StoredQualities == {"HI_RES_LOSSLESS", "LOSSLESS", "HIGH", "LOW"}

\* instance.trim() of the strings a request carries
Trim(s) == IF s = " " THEN "" ELSE s

\* mutant: the entries are not trimmed
normalizeApiInstancesUntrimmed(instances) ==
    SelectSeq(instances, LAMBDA i : i # "")

\* normalizeApiInstances: trim every entry, drop the empty ones
normalizeApiInstances(instances) ==
    SelectSeq([i \in 1..Len(instances) |-> Trim(instances[i])], LAMBDA i : i # "")

\* the trigger handler: 400 without trackId or without a usable instance,
\* else downloadTrack(trackId, quality || DEFAULT_QUALITY, instances) is
\* started and not awaited, and the response is sent in the same turn
Trigger(c, trackId, quality, apiInstances) ==
    LET normalizedInstances == normalizeApiInstances(apiInstances)
        qualityToUse == IF quality # "" THEN quality ELSE DEFAULT_QUALITY
        body == [trackId |-> trackId, quality |-> quality, apiInstances |-> apiInstances]
        Rejected(error) ==
            /\ CanStart(c)
            /\ calls' = [calls EXCEPT ![c] = [IdleCall EXCEPT !.method = "trigger",
                            !.pc = "done", !.status = "400", !.body = body,
                            !.response = [code |-> 400, error |-> error]]]
            /\ UNCHANGED <<activeDownloads, activeMetadataRefresh, filesTable, disk,
                           downloadQuality, metadata, now, deletes, prefChanges,
                           fw, rp, sr, tb, em>>
    IN  /\ c <= MaxTriggers
        /\ IF trackId = ""
           THEN Rejected("trackId is required")
           ELSE IF Len(normalizedInstances) = 0
           THEN Rejected("apiInstances array is required")
           ELSE DownloadTrackFrom(c,
                    [IdleCall EXCEPT !.body = body,
                                     !.response = [code |-> 200, success |-> TRUE,
                                                   status |-> "queued", trackId |-> trackId]],
                    trackId, qualityToUse, Len(normalizedInstances))

NextTrigger ==
    \/ \E c \in Calls, t \in WireTrackIds, q \in WireQualities, i \in WireInstances :
            Trigger(c, t, q, i)
    \/ \E c \in Calls, ok \in BOOLEAN : EnsureStorageDirDone(c, ok)
    \/ \E c \in Calls : CheckCacheDone(c)
    \/ \E c \in Calls, o \in GetTrackOutcomes : GetTrackDone(c, o)
    \/ \E c \in Calls, ok \in BOOLEAN : FetchBufferDone(c, ok)
    \/ \E c \in Calls, ok \in BOOLEAN : ResolveOutputPathStep(c, ok)
    \/ \E c \in Calls, m \in BOOLEAN : EnrichMetadataDone(c, m)
    \/ \E c \in Calls, ok \in BOOLEAN : WriteFileDone(c, ok)
    \/ \E t \in TrackIds, m \in BOOLEAN : RefreshMetadataDone(t, m)
    \/ \E p \in disk : DeleteFile(p)
    \/ \E v \in DownloadQualityValues : UpdatePreferences(v)

TriggerSpec == Init /\ [][NextTrigger]_vars

----------------------------------------------------------------------------
(* Paths: buildTrackFilename, normalizeRelativePath, ensureWithinOutputDir  *)
(* and resolveOutputPath on strings.  A string is the sequence of its       *)
(* characters, so that splitting, trimming and joining are computed.        *)

MaxExisting == 3

\* path.resolve(config.storagePath)
OutputDir == <<"/", "s", "r", "v", "/", "m">>
\* process.cwd(), the base path.resolve gives a relative path
Cwd == <<"/", "a", "p", "p">>

Whitespace == {" "}
\* the class [\\/:*?"<>|] of sanitizeForFilename
ForbiddenChars == {"\\", "/", ":", "*", "?", "\"", "<", ">", "|"}

Min(S) == CHOOSE x \in S : \A y \in S : x <= y
Max(S) == CHOOSE x \in S : \A y \in S : y <= x

\* String.prototype.split(sep) for a one-character separator
RECURSIVE SplitOn(_, _)
SplitOn(s, sep) ==
    LET at == {i \in 1..Len(s) : s[i] = sep} IN
    IF at = {} THEN <<s>>
    ELSE <<SubSeq(s, 1, Min(at) - 1)>> \o SplitOn(SubSeq(s, Min(at) + 1, Len(s)), sep)

\* Array.prototype.join(sep)
RECURSIVE JoinWith(_, _)
JoinWith(parts, sep) ==
    IF parts = <<>> THEN <<>>
    ELSE IF Len(parts) = 1 THEN parts[1]
    ELSE parts[1] \o sep \o JoinWith(Tail(parts), sep)

\* String.prototype.replace(/[set]/g, by) for a one-character replacement
ReplaceChars(s, set, by) == [i \in 1..Len(s) |-> IF s[i] \in set THEN by ELSE s[i]]

\* String.prototype.trim()
TrimString(s) ==
    LET kept == {i \in 1..Len(s) : s[i] \notin Whitespace} IN
    IF kept = {} THEN <<>> ELSE SubSeq(s, Min(kept), Max(kept))

\* String.prototype.replace(/\s+/g, ' ')
CollapseWhitespace(s) ==
    SelectSeq([i \in 1..Len(s) |->
                    IF s[i] \in Whitespace
                    THEN (IF i > 1 /\ s[i - 1] \in Whitespace THEN <<>> ELSE <<" ">>)
                    ELSE <<s[i]>>],
              LAMBDA piece : piece # <<>>)

RECURSIVE Flatten(_)
Flatten(parts) == IF parts = <<>> THEN <<>> ELSE Head(parts) \o Flatten(Tail(parts))

StartsWith(s, prefix) ==
    Len(prefix) <= Len(s) /\ SubSeq(s, 1, Len(prefix)) = prefix

EndsWith(s, suffix) ==
    Len(suffix) <= Len(s) /\ SubSeq(s, Len(s) - Len(suffix) + 1, Len(s)) = suffix

\* helpers.js sanitizeForFilename
sanitizeForFilename(value) ==
    IF value = <<>> THEN <<"U", "n", "k", "n", "o", "w", "n">>
    ELSE TrimString(Flatten(CollapseWhitespace(ReplaceChars(value, ForbiddenChars, "_"))))

\* helpers.js buildTrackFilename, given what formatTemplate made of the
\* template: `${formatTemplate(...)}.${normalizedExtension}`
buildTrackFilename(evaluated, extension) ==
    LET ext == IF extension = <<>> THEN <<"f", "l", "a", "c">> ELSE extension
        normalizedExtension == IF Head(ext) = "." THEN Tail(ext) ELSE ext
    IN  evaluated \o <<".">> \o normalizedExtension

\* node:path (posix) normalizeString: "" and "." dropped, ".." pops a
\* component; above the start it is dropped when absolute, kept otherwise
RECURSIVE NormalizeComponents(_, _, _)
NormalizeComponents(parts, done, allowAboveRoot) ==
    IF parts = <<>> THEN done
    ELSE LET p == Head(parts) IN
         IF p = <<>> \/ p = <<".">>
         THEN NormalizeComponents(Tail(parts), done, allowAboveRoot)
         ELSE IF p = <<".", ".">>
         THEN IF done # <<>> /\ done[Len(done)] # <<".", ".">>
              THEN NormalizeComponents(Tail(parts), SubSeq(done, 1, Len(done) - 1), allowAboveRoot)
              ELSE IF allowAboveRoot
              THEN NormalizeComponents(Tail(parts), Append(done, p), allowAboveRoot)
              ELSE NormalizeComponents(Tail(parts), done, allowAboveRoot)
         ELSE NormalizeComponents(Tail(parts), Append(done, p), allowAboveRoot)

IsAbsolute(p) == p # <<>> /\ p[1] = "/"

\* path.normalize
PathNormalize(p) ==
    IF p = <<>> THEN <<".">>
    ELSE LET body == JoinWith(NormalizeComponents(SplitOn(p, "/"), <<>>, ~IsAbsolute(p)), <<"/">>)
             trailing == p[Len(p)] = "/"
         IN  IF IsAbsolute(p)
             THEN <<"/">> \o body \o (IF body # <<>> /\ trailing THEN <<"/">> ELSE <<>>)
             ELSE IF body = <<>> THEN (IF trailing THEN <<".", "/">> ELSE <<".">>)
             ELSE body \o (IF trailing THEN <<"/">> ELSE <<>>)

\* path.join of two strings
PathJoin(a, b) ==
    IF a = <<>> THEN PathNormalize(b)
    ELSE IF b = <<>> THEN PathNormalize(a)
    ELSE PathNormalize(a \o <<"/">> \o b)

\* path.resolve of one string
PathResolve(p) ==
    LET full == IF IsAbsolute(p) THEN p ELSE Cwd \o <<"/">> \o p
    IN  <<"/">> \o JoinWith(NormalizeComponents(SplitOn(full, "/"), <<>>, FALSE), <<"/">>)

\* the components of a path, without the empty ones of repeated or trailing "/"
Components(p) == SelectSeq(SplitOn(p, "/"), LAMBDA part : part # <<>>)

\* path.basename(p)
PathBasename(p) ==
    IF Components(p) = <<>> THEN <<>> ELSE Components(p)[Len(Components(p))]

\* path.dirname(p)
PathDirname(p) ==
    LET parts == Components(p)
        parent == JoinWith(SubSeq(parts, 1, Len(parts) - 1), <<"/">>)
    IN  IF Len(parts) <= 1
        THEN (IF IsAbsolute(p) THEN <<"/">> ELSE <<".">>)
        ELSE (IF IsAbsolute(p) THEN <<"/">> ELSE <<>>) \o parent

\* path.extname of a file name: from its last ".", unless that is its first
\* character or there is none
PathExtname(base) ==
    LET dots == {i \in 1..Len(base) : base[i] = "."} IN
    IF dots = {} \/ Max(dots) = 1 \/ base = <<".", ".">> THEN <<>>
    ELSE SubSeq(base, Max(dots), Len(base))

\* path.basename(base, ext)
PathBasenameWithout(base, ext) ==
    IF ext # <<>> /\ base # ext /\ EndsWith(base, ext)
    THEN SubSeq(base, 1, Len(base) - Len(ext))
    ELSE base

\* raw.replace(/\\/g, '/').split('/').map(trim).filter(Boolean)
TrimmedSegments(relativePath) ==
    LET split == SplitOn(ReplaceChars(relativePath, {"\\"}, "/"), "/")
    IN  SelectSeq([i \in 1..Len(split) |-> TrimString(split[i])],
                  LAMBDA segment : segment # <<>>)

\* the rest of normalizeRelativePath, from the segments that are kept
SafePathOf(kept, extension, trackId) ==
    LET segments == [i \in 1..Len(kept) |-> sanitizeForFilename(kept[i])]
        fallbackName == trackId \o <<".">> \o extension
        safePath == JoinWith(segments, <<"/">>)
        baseName == PathBasename(safePath)
        dir == PathDirname(safePath)
    IN  IF Len(kept) = 0 THEN fallbackName
        ELSE IF baseName = <<>> \/ baseName = <<".">> \o extension
        THEN (IF dir = <<".">> THEN fallbackName ELSE PathJoin(dir, fallbackName))
        ELSE safePath

\* mutant: the '.' and '..' segments are kept
normalizeRelativePathKeepsDots(relativePath, extension, trackId) ==
    SafePathOf(TrimmedSegments(relativePath), extension, trackId)

\* DownloadService.normalizeRelativePath
normalizeRelativePath(relativePath, extension, trackId) ==
    SafePathOf(SelectSeq(TrimmedSegments(relativePath),
                         LAMBDA segment : segment # <<".">> /\ segment # <<".", ".">>),
               extension, trackId)

\* DownloadService.buildFilename, given what the template evaluates to
buildFilename(evaluated, extension, trackId) ==
    normalizeRelativePath(buildTrackFilename(evaluated, extension), extension, trackId)

\* mutant: the fallback is taken for a path inside the root as well
ensureWithinOutputDirAlwaysFallback(candidate, outputDir, trackId, extension) ==
    PathJoin(outputDir, trackId \o <<".">> \o extension)

\* DownloadService.ensureWithinOutputDir
ensureWithinOutputDir(candidate, outputDir, trackId, extension) ==
    LET resolved == PathResolve(candidate) IN
    IF resolved = outputDir \/ StartsWith(resolved, outputDir \o <<"/">>)
    THEN resolved
    ELSE PathJoin(outputDir, trackId \o <<".">> \o extension)

\* decimal digits of String(index)
RECURSIVE Digits(_)
Digits(n) ==
    LET digit == <<"0", "1", "2", "3", "4", "5", "6", "7", "8", "9">>[(n % 10) + 1] IN
    IF n < 10 THEN <<digit>> ELSE Append(Digits(n \div 10), digit)

\* the path resolveOutputPath probes at the given index: 0 is the rendered
\* path, 1 is `${name}-${trackId}${ext}`, n >= 2 is `${name}-${trackId}-${n}${ext}`
Probe(relativePath, trackId, extension, index) ==
    LET safeRelativePath == normalizeRelativePath(relativePath, extension, trackId)
        first == ensureWithinOutputDir(PathJoin(OutputDir, safeRelativePath),
                                       OutputDir, trackId, extension)
        directory == PathDirname(first)
        baseName == PathBasename(first)
        ext == PathExtname(baseName)
        name == PathBasenameWithout(baseName, ext)
        suffix == IF index = 1 THEN <<>> ELSE <<"-">> \o Digits(index)
    IN  IF index = 0 THEN first
        ELSE ensureWithinOutputDir(
                PathJoin(directory, name \o <<"-">> \o trackId \o suffix \o ext),
                OutputDir, trackId, extension)

\* fileExists against a storage directory; `full` stands for a directory in
\* which every path the call probes exists
FileExists(dir, filePath) == dir.full \/ filePath \in dir.files

\* mutant: the first alternative is taken without looking
resolveOutputPathUnchecked(relativePath, trackId, extension, dir) ==
    IF ~FileExists(dir, Probe(relativePath, trackId, extension, 0))
    THEN Probe(relativePath, trackId, extension, 0)
    ELSE Probe(relativePath, trackId, extension, 1)

\* DownloadService.resolveOutputPath against a directory that does not change
\* during the call: the first probe with no file, else the `candidate` of
\* index 1 once the loop has run out
resolveOutputPath(relativePath, trackId, extension, dir) ==
    LET Tried(i) == FileExists(dir, Probe(relativePath, trackId, extension, i))
        loop == 2..(IndexLimit - 1)
    IN  IF ~Tried(0) THEN Probe(relativePath, trackId, extension, 0)
        ELSE IF ~Tried(1) THEN Probe(relativePath, trackId, extension, 1)
        ELSE IF \A i \in loop : Tried(i)
        THEN Probe(relativePath, trackId, extension, 1)
        ELSE Probe(relativePath, trackId, extension,
                   CHOOSE i \in loop : ~Tried(i) /\ \A j \in 2..(i - 1) : Tried(j))

(* Inputs *)

\* what formatTemplate makes of the filename template
EvaluatedTemplates ==
    {<<".", ".", "/", ".", ".", "/", "e", "t", "c", "/", "p", "a", "s", "s", "w", "d">>,
     <<"A", "r", "t", "i", "s", "t", "/", "A", "l", "b", "u", "m", "/", "T", "i", "t", "l", "e">>,
     <<"T", "i", "t", "l", "e">>,
     <<".", ".">>,
     <<"/">>,
     <<"A", "l", "b", "u", "m", "/">>,
     <<"a", "\\", ".", ".", "\\", "b">>,
     <<" ", ".", " ", "/", " ", "a", " ", " ", "b", " ">>,
     <<"a", ":", "b">>}

\* the trackId of a request body
PathTrackIds == {<<"1">>, <<"2">>, <<".", ".", "/", ".", ".", "/", ".", ".", "/", "x">>, <<"a", "/", "b">>}

\* the extensions fetchTrackBuffer gives
Extensions == {<<"f", "l", "a", "c">>, <<"m", "p", "4">>}

\* storage directories: the first k probes of the call exist, or all do
Directories(relativePath, trackId, extension) ==
    {[full |-> FALSE,
      files |-> {Probe(relativePath, trackId, extension, i) : i \in 0..(k - 1)}] :
        k \in 0..MaxExisting}
    \cup {[full |-> TRUE, files |-> {}]}

BuildFilename ==
    /\ rp.pc = "buildFilename"
    /\ rp' = [rp EXCEPT !.pc = "resolveOutputPath",
                        !.relativePath = buildFilename(rp.evaluated, rp.extension, rp.trackId)]
    /\ UNCHANGED <<calls, activeDownloads, activeMetadataRefresh, filesTable, disk,
                   downloadQuality, metadata, now, deletes, prefChanges, fw, sr, tb, em>>

ResolveOutputPath ==
    /\ rp.pc = "resolveOutputPath"
    /\ rp' = [rp EXCEPT !.pc = "done",
                        !.filePath = resolveOutputPath(rp.relativePath, rp.trackId,
                                                       rp.extension, rp.dir)]
    /\ UNCHANGED <<calls, activeDownloads, activeMetadataRefresh, filesTable, disk,
                   downloadQuality, metadata, now, deletes, prefChanges, fw, sr, tb, em>>

InitPath ==
    /\ em = [pc |-> "off"]
    /\ calls = [c \in Calls |-> IdleCall]
    /\ activeDownloads = {}
    /\ activeMetadataRefresh = {}
    /\ filesTable = {}
    /\ disk = {}
    /\ downloadQuality = PASSTHROUGH
    /\ metadata = {}
    /\ now = 0
    /\ deletes = 0
    /\ prefChanges = 0
    /\ fw = [pc |-> "off"]
    /\ sr = [pc |-> "off"]
    /\ tb = [pc |-> "off"]
    /\ \E e \in EvaluatedTemplates, t \in PathTrackIds, x \in Extensions :
        \E d \in Directories(buildFilename(e, x, t), t, x) :
            rp = [pc |-> "buildFilename", evaluated |-> e, trackId |-> t, extension |-> x,
                  dir |-> d, relativePath |-> <<>>, filePath |-> <<>>]

NextPath == BuildFilename \/ ResolveOutputPath

PathSpec == InitPath /\ [][NextPath]_vars

----------------------------------------------------------------------------
(* The stream route: parseRangeHeader and streamFile *)

DigitChars == {"0", "1", "2", "3", "4", "5", "6", "7", "8", "9"}

\* Number.parseInt(s, 10) is NaN: no leading digit (the strings the pattern
\* captures hold digits only)
IsNaNParse(s) == s = <<>> \/ s[1] \notin DigitChars

\* Number.parseInt(s, 10) of a string that starts with a digit
RECURSIVE ParseInt(_)
ParseInt(s) ==
    LET digits == {i \in 1..Len(s) : \A j \in 1..i : s[j] \in DigitChars}
        last == s[Max(digits)]
        value == CHOOSE v \in 0..9 : Digits(v) = <<last>>
    IN  IF Max(digits) = 1 THEN value
        ELSE 10 * ParseInt(SubSeq(s, 1, Max(digits) - 1)) + value

\* the longest run of digits at the start of s: what (\d*) captures
LeadingDigits(s) ==
    LET stops == {i \in 1..Len(s) : s[i] \notin DigitChars} IN
    IF stops = {} THEN s ELSE SubSeq(s, 1, Min(stops) - 1)

\* /bytes=(\d*)-(\d*)/.exec(header): the leftmost place where "bytes=", digits
\* and "-" follow each other; <<>> when there is none
RangeMatch(header) ==
    LET unit == <<"b", "y", "t", "e", "s", "=">>
        After(i) == SubSeq(header, i + Len(unit), Len(header))
        AfterStart(i) == SubSeq(After(i), Len(LeadingDigits(After(i))) + 1, Len(After(i)))
        places == {i \in 1..Len(header) :
                        /\ i + Len(unit) - 1 <= Len(header)
                        /\ SubSeq(header, i, i + Len(unit) - 1) = unit
                        /\ AfterStart(i) # <<>> /\ AfterStart(i)[1] = "-"}
    IN  IF places = {} THEN <<>>
        ELSE <<LeadingDigits(After(Min(places))),
               LeadingDigits(Tail(AfterStart(Min(places))))>>


MaxOf(a, b) == IF a >= b THEN a ELSE b
MinOf(a, b) == IF a <= b THEN a ELSE b

\* mutant: the suffix form is not clamped at the start of the file
parseRangeHeaderUnclampedSuffix(rangeHeader, totalSize) ==
    LET match == RangeMatch(rangeHeader)
        startStr == match[1]
        endStr == match[2]
        start == IF startStr = <<>> THEN totalSize - ParseInt(endStr) ELSE ParseInt(startStr)
        end == IF startStr = <<>> \/ endStr = <<>> THEN totalSize - 1
               ELSE MinOf(ParseInt(endStr), totalSize - 1)
    IN  IF match = <<>> THEN Null
        ELSE IF startStr = <<>> /\ endStr = <<>> THEN Null
        ELSE IF startStr # <<>> /\ start >= totalSize THEN Null
        ELSE IF start > end THEN Null
        ELSE [start |-> start, end |-> end]

\* parseRangeHeader
parseRangeHeader(rangeHeader, totalSize) ==
    LET match == RangeMatch(rangeHeader)
        startStr == match[1]
        endStr == match[2]
    IN  IF match = <<>> THEN Null
        ELSE IF startStr = <<>> /\ endStr = <<>> THEN Null
        ELSE IF startStr = <<>>
        THEN IF IsNaNParse(endStr) THEN Null
             ELSE LET suffixLength == ParseInt(endStr)
                      end == totalSize - 1
                      start == MaxOf(totalSize - suffixLength, 0)
                  IN  IF start > end THEN Null ELSE [start |-> start, end |-> end]
        ELSE IF IsNaNParse(startStr) \/ (endStr # <<>> /\ IsNaNParse(endStr)) THEN Null
        ELSE LET start == ParseInt(startStr)
                 end == IF endStr # <<>> THEN ParseInt(endStr) ELSE totalSize - 1
             IN  IF start >= totalSize THEN Null
                 ELSE IF start > MinOf(end, totalSize - 1) THEN Null
                 ELSE [start |-> start, end |-> MinOf(end, totalSize - 1)]

(* Inputs *)

\* sizes of the cached file
FileSizes == {0, 1, 10, 1000}
\* the numbers written into Range headers
RangeNumbers == {0, 1, 9, 10, 100, 499, 950, 2000, 2100}
Methods == {"GET", "HEAD"}

\* a header of one of the three forms, with the numbers it was written from
RangeHeaders ==
    {[form |-> "both", a |-> a, b |-> b,
      text |-> <<"b", "y", "t", "e", "s", "=">> \o Digits(a) \o <<"-">> \o Digits(b)] :
        a \in RangeNumbers, b \in RangeNumbers}
    \cup {[form |-> "from", a |-> a, b |-> 0,
           text |-> <<"b", "y", "t", "e", "s", "=">> \o Digits(a) \o <<"-">>] : a \in RangeNumbers}
    \cup {[form |-> "suffix", a |-> 0, b |-> n,
           text |-> <<"b", "y", "t", "e", "s", "=", "-">> \o Digits(n)] : n \in RangeNumbers}

\* headers of no such form: a field is missing or is not a number ("other"),
\* or a range of such a form stands inside other text ("loose")
OtherHeaders ==
    {[form |-> "other", a |-> 0, b |-> 0, text |-> t] :
        t \in {<<"b", "y", "t", "e", "s", "=", "-">>, <<"b", "y", "t", "e", "s", "=">>, <<"b", "y", "t", "e", "s", "=", "a", "b", "c">>, <<"b", "y", "t", "e", "s", "=", "a", "-", "5">>,
               <<"b", "y", "t", "e", "s", "=", "5", "-", "a", "b", "c">>, <<"b", "y", "t", "e", "s", "=", "-", "a", "b", "c">>, <<"i", "t", "e", "m", "s", "=", "0", "-", "5">>, <<"0", "-", "5">>,
               <<"b", "y", "t", "e", "s", "=", " ", "0", "-", "5">>}}
    \cup {[form |-> "loose", a |-> 0, b |-> 0, text |-> t] :
            t \in {<<"b", "y", "t", "e", "s", "=", "0", "-", "4", ",", "6", "-", "8">>, <<"x", "b", "y", "t", "e", "s", "=", "2", "-", "3">>}}

\* no Range header on the request
NoRange == [form |-> "none", a |-> 0, b |-> 0, text |-> <<>>]

\* a request of the stream routes that has not arrived
IdleRequest ==
    [pc |-> "idle", route |-> "", call |-> 0, method |-> "", header |-> NoRange,
     size |-> 0, filePath |-> NoPath, status |-> 0, error |-> "",
     reply |-> Null, range |-> Null, contentRange |-> Null,
     contentLength |-> -1, body |-> {}]

\* mutant: the ENOENT of stat is thrown on to the error handler
StatFailedRethrown(request) ==
    [request EXCEPT !.pc = "done", !.status = 500, !.error = "Internal server error"]

\* handleStreamRequest catches the ENOENT of streamFile's stat
StatFailed(request) ==
    [request EXCEPT !.pc = "done", !.status = 404, !.error = "Track not found"]

\* fsPromises.stat settles; with the size, streamFile sets status and headers
\* and, unless the response is complete, opens the read stream
StreamFileStat ==
    /\ sr.pc = "stat"
    /\ LET totalSize == sr.size
           range == parseRangeHeader(sr.header.text, totalSize)
       IN  sr' = IF sr.filePath \notin disk
                 THEN StatFailed(sr)
                 ELSE IF sr.header.text # <<>>
                 THEN IF range = Null
                      THEN [sr EXCEPT !.pc = "done", !.status = 416, !.range = range,
                                      !.contentRange = [star |-> TRUE, size |-> totalSize]]
                      ELSE [sr EXCEPT !.pc = IF sr.method = "HEAD" THEN "done" ELSE "pipe",
                                      !.status = 206, !.range = range,
                                      !.contentRange = [star |-> FALSE, start |-> range.start,
                                                        end |-> range.end, size |-> totalSize],
                                      !.contentLength = range.end - range.start + 1]
                 ELSE [sr EXCEPT !.pc = IF sr.method = "HEAD" THEN "done" ELSE "pipe",
                                 !.status = 200, !.contentLength = totalSize]
    /\ UNCHANGED <<calls, activeDownloads, activeMetadataRefresh, filesTable, disk,
                   downloadQuality, metadata, now, deletes, prefChanges, fw, rp, tb, em>>

\* fs.createReadStream(filePath, { start, end }).pipe(res) has sent the span
\* (both ends inclusive), or the whole file without a range
StreamPiped ==
    /\ sr.pc = "pipe"
    /\ sr' = [sr EXCEPT !.pc = "done",
                        !.body = IF sr.status = 206
                                 THEN {i \in 0..(sr.size - 1) : sr.range.start <= i /\ i <= sr.range.end}
                                 ELSE 0..(sr.size - 1)]
    /\ UNCHANGED <<calls, activeDownloads, activeMetadataRefresh, filesTable, disk,
                   downloadQuality, metadata, now, deletes, prefChanges, fw, rp, tb, em>>

InitStream ==
    /\ em = [pc |-> "off"]
    /\ calls = [c \in Calls |-> IdleCall]
    /\ activeDownloads = {}
    /\ activeMetadataRefresh = {}
    /\ filesTable = {}
    /\ disk \in SUBSET {Candidate("1", 0)}
    /\ downloadQuality = PASSTHROUGH
    /\ metadata = {}
    /\ now = 0
    /\ deletes = 0
    /\ prefChanges = 0
    /\ fw = [pc |-> "off"]
    /\ rp = [pc |-> "off"]
    /\ tb = [pc |-> "off"]
    /\ \E m \in Methods, h \in RangeHeaders \cup OtherHeaders \cup {NoRange},
          s \in FileSizes :
            sr = [IdleRequest EXCEPT !.pc = "stat", !.route = "stream", !.method = m,
                                     !.header = h, !.size = s,
                                     !.filePath = Candidate("1", 0)]

NextStream == StreamFileStat \/ StreamPiped

StreamSpec == InitStream /\ [][NextStream]_vars

----------------------------------------------------------------------------
(* The stream routes over the cache: GET /status/:trackId, GET and HEAD
   /:trackId *)

\* the quality of the query string; "" stands for none given
QueryQualities == {"", "LOSSLESS", "LOW"}
\* the Range headers sent to the routes
ServeHeaders == {NoRange} \cup {h \in RangeHeaders : h.form = "both" /\ h.a = 0 /\ h.b = 9}
ServeSizes == {0, 10}

\* rows of the track, one per quality, each with its own file, saved in this order
ServeRows ==
    {[track_id |-> "1", quality |-> "HI_RES_LOSSLESS", file_path |-> Candidate("1", 0),
      downloaded_at |-> 1, by |-> 0],
     [track_id |-> "1", quality |-> "LOSSLESS", file_path |-> Candidate("1", 1),
      downloaded_at |-> 2, by |-> 0],
     [track_id |-> "1", quality |-> "HIGH", file_path |-> Candidate("1", 2),
      downloaded_at |-> 3, by |-> 0]}

\* the status route and handleStreamRequest up to their await of
\* getCachedFile(trackId, quality || DEFAULT_QUALITY, { fallback: true })
ServeRequest(route, c, trackId, quality, method, header) ==
    /\ sr.pc = "idle"
    /\ GetCachedFileCall(c, trackId, IF quality = "" THEN DEFAULT_QUALITY ELSE quality, TRUE)
    /\ sr' = [sr EXCEPT !.pc = "getCachedFile", !.route = route, !.call = c,
                        !.method = method, !.header = header]

\* getCachedFile has returned: the status route replies; handleStreamRequest
\* answers 404 when resolveCachedFile gave null, else streamFile awaits stat
ServeResolved(size) ==
    /\ sr.pc = "getCachedFile"
    /\ calls[sr.call].pc = "done"
    /\ LET status == calls[sr.call]
           cached == status.status = "cached" /\ status.path # NoPath
       IN  sr' = IF sr.route = "status"
                 THEN [sr EXCEPT !.pc = "done", !.status = 200,
                                 !.reply = [status |-> status.status,
                                            available |-> status.status = "cached"]]
                 ELSE IF ~cached
                 THEN [sr EXCEPT !.pc = "done", !.status = 404, !.error = "Track not cached"]
                 ELSE [sr EXCEPT !.pc = "stat", !.filePath = status.path, !.size = size]
    /\ UNCHANGED <<calls, activeDownloads, activeMetadataRefresh, filesTable, disk,
                   downloadQuality, metadata, now, deletes, prefChanges, fw, rp, tb, em>>

\* GET /status/:trackId of the download routes: getStatus(trackId,
\* quality || DEFAULT_QUALITY), whose result is the reply
StatusRequest(c, trackId, quality) ==
    GetStatus(c, trackId, IF quality = "" THEN DEFAULT_QUALITY ELSE quality)

\* the cache holds some of the rows, some of their files exist, and a
\* download of another quality may be in flight
InitServe ==
    /\ em = [pc |-> "off"]
    /\ calls = [c \in Calls |-> IdleCall]
    /\ activeDownloads \in SUBSET {getDownloadKey("1", "LOW")}
    /\ activeMetadataRefresh = {}
    /\ filesTable \in SUBSET ServeRows
    /\ disk \in SUBSET {r.file_path : r \in filesTable}
    /\ downloadQuality \in DownloadQualityValues
    /\ metadata = {}
    /\ now = 3
    /\ deletes = 0
    /\ prefChanges = 0
    /\ fw = [pc |-> "off"]
    /\ rp = [pc |-> "off"]
    /\ sr = IdleRequest
    /\ tb = [pc |-> "off"]

NextServe ==
    \/ \E route \in {"status", "stream"}, t \in TrackIds, q \in QueryQualities,
          m \in Methods, h \in ServeHeaders : ServeRequest(route, 1, t, q, m, h)
    \/ \E c \in Calls, t \in TrackIds, q \in QueryQualities : StatusRequest(c, t, q)
    \/ \E c \in Calls : GetStatusCheckCacheDone(c)
    \/ \E c \in Calls : GetCachedFileCheckCacheDone(c)
    \/ \E c \in Calls : CheckAnyCacheStep(c)
    \/ \E s \in ServeSizes : ServeResolved(s)
    \/ StreamFileStat
    \/ StreamPiped
    \/ \E p \in disk : DeleteFile(p)

ServeSpec == InitServe /\ [][NextServe]_vars

----------------------------------------------------------------------------
(* CacheService by itself: saveCache, and checkCache and checkAnyCache as
   getCachedFile runs them *)

\* track ids as callers pass them; saveCache and the lookups trim them
CacheTrackIds == {"1", " 1"}
\* the quality saved; the rows of HI_RES_LOSSLESS and HIGH are the other keys
CacheQualities == {"LOSSLESS"}
CachePaths == {Candidate("1", 0), Candidate("1", 1)}

\* one saveCache({ trackId, quality, filePath, ... }): the upsert, stamped
\* with the time of the call
SaveCache(c, trackId, quality, filePath) ==
    /\ CanStart(c)
    /\ calls' = [calls EXCEPT ![c] =
            [IdleCall EXCEPT !.method = "saveCache", !.pc = "done", !.trackId = trackId,
                             !.quality = quality, !.resolvedQuality = quality,
                             !.filePath = filePath, !.status = "saved"]]
    /\ filesTable' = saveCache(filesTable, trackId, quality, filePath, now + 1, c)
    /\ now' = now + 1
    /\ UNCHANGED <<activeDownloads, activeMetadataRefresh, disk, downloadQuality,
                   metadata, deletes, prefChanges, fw, rp, sr, tb, em>>

InitCache ==
    /\ em = [pc |-> "off"]
    /\ calls = [c \in Calls |-> IdleCall]
    /\ activeDownloads = {}
    /\ activeMetadataRefresh = {}
    /\ filesTable \in SUBSET ServeRows
    /\ disk = {r.file_path : r \in filesTable}
    /\ downloadQuality = PASSTHROUGH
    /\ metadata = {}
    /\ now = 3
    /\ deletes = 0
    /\ prefChanges = 0
    /\ fw = [pc |-> "off"]
    /\ rp = [pc |-> "off"]
    /\ sr = [pc |-> "off"]
    /\ tb = [pc |-> "off"]

NextCache ==
    \/ \E c \in Calls, t \in CacheTrackIds, q \in CacheQualities, p \in CachePaths :
            SaveCache(c, t, q, p)
    \/ \E c \in Calls, t \in CacheTrackIds, q \in CacheQualities, f \in BOOLEAN :
            GetCachedFile(c, t, q, f)
    \/ \E c \in Calls : GetCachedFileCheckCacheDone(c)
    \/ \E c \in Calls : CheckAnyCacheStep(c)
    \/ \E p \in disk : DeleteFile(p)

CacheSpec == InitCache /\ [][NextCache]_vars

----------------------------------------------------------------------------
(* APIService.getTrack over the JSON payload of the track lookup *)

\* JSON values, and undefined; a string is the sequence of its characters
Undefined == [t |-> "undefined"]
JNull == [t |-> "null"]
JBool(b) == [t |-> "boolean", v |-> b]
JStr(v) == [t |-> "string", v |-> v]
JNum(n) == [t |-> "number", v |-> n]
JArr(items) == [t |-> "array", items |-> items]
JObj(f) == [t |-> "object", f |-> f]

\* !!value
Truthy(v) ==
    CASE v.t \in {"undefined", "null"} -> FALSE
      [] v.t = "string" -> v.v # <<>>
      [] v.t = "number" -> v.v # 0
      [] v.t = "boolean" -> v.v
      [] OTHER -> TRUE
\* value && typeof value === 'object'
IsObject(v) == v.t \in {"object", "array"}
\* name in value, for the property names of the payload
Has(v, name) == v.t = "object" /\ name \in DOMAIN v.f
\* value.name and value?.name
Get(v, name) == IF Has(v, name) THEN v.f[name] ELSE Undefined
\* a ?? b
Coalesce(a, b) == IF a.t \in {"undefined", "null"} THEN b ELSE a

\* APIService.normalizeTrackResponse
normalizeTrackResponse(apiResponse) ==
    IF ~IsObject(apiResponse)
    THEN apiResponse
    ELSE LET raw == Coalesce(Get(apiResponse, "data"), apiResponse)
             trackStub == JObj([duration |-> Coalesce(Get(raw, "duration"), JNum(0)),
                                id |-> Coalesce(Get(raw, "trackId"), JNull)])
         IN  JArr(<<trackStub, raw>>)

\* the loop of parseTrackLookup over the entries, from the locals so far
RECURSIVE ScanEntries(_, _)
ScanEntries(entries, found) ==
    IF entries = <<>> THEN found
    ELSE LET entry == Head(entries)
             candidate == Get(entry, "OriginalTrackUrl")
         IN  ScanEntries(Tail(entries),
                IF ~IsObject(entry) THEN found
                ELSE IF ~Truthy(found.track) /\ Has(entry, "duration")
                THEN [found EXCEPT !.track = entry]
                ELSE IF ~Truthy(found.info) /\ Has(entry, "manifest")
                THEN [found EXCEPT !.info = entry]
                ELSE IF ~Truthy(found.originalTrackUrl) /\ Has(entry, "OriginalTrackUrl")
                        /\ candidate.t = "string"
                THEN [found EXCEPT !.originalTrackUrl = candidate]
                ELSE found)

Malformed == [error |-> "Malformed track response"]

\* APIService.parseTrackLookup
parseTrackLookup(data) ==
    LET entries == IF data.t = "array" THEN data.items ELSE <<data>>
        found == ScanEntries(entries, [track |-> Undefined, info |-> Undefined,
                                       originalTrackUrl |-> Undefined])
    IN  IF ~Truthy(found.track) \/ ~Truthy(found.info) THEN Malformed ELSE found

\* the result of getTrack for the parsed body of the response
getTrack(jsonResponse) == parseTrackLookup(normalizeTrackResponse(jsonResponse))

\* the entries of array payloads
TaggedEntries ==
    {JObj([duration |-> JNum(200), id |-> JNum(1)]),
     JObj([manifest |-> JStr(<<"M">>)]),
     JObj([OriginalTrackUrl |-> JStr(<<"h", "t", "t", "p", "s", ":", "/", "/", "u">>)]),
     JObj([OriginalTrackUrl |-> JNum(5)]),
     JNull}
MaxEntries == 3
\* the fields an object payload may carry
RawFields ==
    [trackId |-> JNum(1), duration |-> JNum(200), manifest |-> JStr(<<"M">>),
     OriginalTrackUrl |-> JStr(<<"h", "t", "t", "p", "s", ":", "/", "/", "u">>)]

ArrayPayloads ==
    {JArr(items) : items \in UNION {[1..n -> TaggedEntries] : n \in 0..MaxEntries}}
ObjectPayloads ==
    {JObj([name \in names |-> RawFields[name]]) : names \in SUBSET DOMAIN RawFields}
\* the bodies a track lookup answers with
Payloads ==
    ArrayPayloads \cup ObjectPayloads
        \cup {JObj([data |-> o]) : o \in ObjectPayloads \cup {JNull, JStr(<<"x">>)}}
        \cup {JNull, JStr(<<"x">>), JNum(0)}

\* response.json() has settled; getTrack returns or throws
GetTrackSettles ==
    /\ tb.pc = "getTrack"
    /\ tb' = [tb EXCEPT !.pc = "lookup", !.trackData = getTrack(tb.payload)]
    /\ UNCHANGED <<calls, activeDownloads, activeMetadataRefresh, filesTable, disk,
                   downloadQuality, metadata, now, deletes, prefChanges, fw, rp, sr, em>>

InitLookup ==
    /\ em = [pc |-> "off"]
    /\ calls = [c \in Calls |-> IdleCall]
    /\ activeDownloads = {}
    /\ activeMetadataRefresh = {}
    /\ filesTable = {}
    /\ disk = {}
    /\ downloadQuality = PASSTHROUGH
    /\ metadata = {}
    /\ now = 0
    /\ deletes = 0
    /\ prefChanges = 0
    /\ fw = [pc |-> "off"]
    /\ rp = [pc |-> "off"]
    /\ sr = [pc |-> "off"]
    /\ \E p \in Payloads : tb = [pc |-> "getTrack", payload |-> p, trackData |-> Undefined]

NextLookup == GetTrackSettles

LookupSpec == InitLookup /\ [][NextLookup]_vars

----------------------------------------------------------------------------
(* detectExtension over the bytes of the downloaded buffer *)

\* buffer[i], from 0
At(buffer, i) == buffer[i + 1]
\* b & 0xe0, for a byte
AndE0(b) == (b \div 32) * 32

\* mutant: any 0xff first byte counts as an MPEG frame sync
detectExtensionAnyFF(buffer) ==
    IF Len(buffer) < 12 THEN "audio"
    ELSE IF At(buffer, 0) = 102 /\ At(buffer, 1) = 76 /\ At(buffer, 2) = 97 /\ At(buffer, 3) = 67
    THEN "flac"
    ELSE IF At(buffer, 4) = 102 /\ At(buffer, 5) = 116 /\ At(buffer, 6) = 121 /\ At(buffer, 7) = 112
    THEN "m4a"
    ELSE IF \/ At(buffer, 0) = 73 /\ At(buffer, 1) = 68 /\ At(buffer, 2) = 51
            \/ At(buffer, 0) = 255
    THEN "mp3"
    ELSE IF At(buffer, 0) = 79 /\ At(buffer, 1) = 103 /\ At(buffer, 2) = 103 /\ At(buffer, 3) = 83
    THEN "ogg"
    ELSE IF At(buffer, 0) = 82 /\ At(buffer, 1) = 73 /\ At(buffer, 2) = 70 /\ At(buffer, 3) = 70
    THEN "wav"
    ELSE "audio"

\* detectExtension (helpers.js), the byte values in decimal
detectExtension(buffer) ==
    IF Len(buffer) < 12 THEN "audio"
    ELSE IF At(buffer, 0) = 102 /\ At(buffer, 1) = 76 /\ At(buffer, 2) = 97 /\ At(buffer, 3) = 67
    THEN "flac"
    ELSE IF At(buffer, 4) = 102 /\ At(buffer, 5) = 116 /\ At(buffer, 6) = 121 /\ At(buffer, 7) = 112
    THEN "m4a"
    ELSE IF \/ At(buffer, 0) = 73 /\ At(buffer, 1) = 68 /\ At(buffer, 2) = 51
            \/ At(buffer, 0) = 255 /\ AndE0(At(buffer, 1)) = 224
    THEN "mp3"
    ELSE IF At(buffer, 0) = 79 /\ At(buffer, 1) = 103 /\ At(buffer, 2) = 103 /\ At(buffer, 3) = 83
    THEN "ogg"
    ELSE IF At(buffer, 0) = 82 /\ At(buffer, 1) = 73 /\ At(buffer, 2) = 70 /\ At(buffer, 3) = 70
    THEN "wav"
    ELSE "audio"

\* the first four bytes and the next four bytes of the buffers tried
HeadBytes ==
    {<<102, 76, 97, 67>>, <<102, 76, 97, 68>>, <<73, 68, 51, 4>>, <<73, 68, 50, 4>>,
     <<255, 224, 0, 0>>, <<255, 251, 144, 0>>, <<255, 31, 0, 0>>, <<255, 192, 0, 0>>,
     <<254, 255, 0, 0>>, <<79, 103, 103, 83>>, <<79, 103, 103, 84>>,
     <<82, 73, 70, 70>>, <<82, 73, 70, 88>>, <<0, 0, 0, 32>>}
NextBytes == {<<102, 116, 121, 112>>, <<102, 116, 121, 113>>, <<0, 0, 0, 0>>}
BufferLengths == {0, 3, 4, 8, 11, 12, 13}

\* a buffer of the length with the bytes in front, zeros behind
BufferOf(bytes, length) ==
    [i \in 1..length |-> IF i <= Len(bytes) THEN bytes[i] ELSE 0]
Buffers ==
    {BufferOf(h \o n, l) : h \in HeadBytes, n \in NextBytes, l \in BufferLengths}

\* fetchBuffer has settled: fetchTrackBuffer returns { buffer, ext: detectExtension(buffer) }
FetchBufferSettles ==
    /\ tb.pc = "fetchBuffer"
    /\ tb' = [tb EXCEPT !.pc = "done", !.ext = detectExtension(tb.buffer)]
    /\ UNCHANGED <<calls, activeDownloads, activeMetadataRefresh, filesTable, disk,
                   downloadQuality, metadata, now, deletes, prefChanges, fw, rp, sr, em>>

InitExtension ==
    /\ em = [pc |-> "off"]
    /\ calls = [c \in Calls |-> IdleCall]
    /\ activeDownloads = {}
    /\ activeMetadataRefresh = {}
    /\ filesTable = {}
    /\ disk = {}
    /\ downloadQuality = PASSTHROUGH
    /\ metadata = {}
    /\ now = 0
    /\ deletes = 0
    /\ prefChanges = 0
    /\ fw = [pc |-> "off"]
    /\ rp = [pc |-> "off"]
    /\ sr = [pc |-> "off"]
    /\ \E b \in Buffers : tb = [pc |-> "fetchBuffer", buffer |-> b, ext |-> ""]

NextExtension == FetchBufferSettles

ExtensionSpec == InitExtension /\ [][NextExtension]_vars

----------------------------------------------------------------------------
(* DownloadService.fetchTrackBuffer up to the GET of the stream: decodeManifest,
   isDashManifest and extractStreamUrlFromDecodedManifest on the characters of
   the manifest *)

\* the printable ASCII characters, from code 32 to code 126 (the grave accent,
\* code 96, cannot be written in a string of this language and is spelled out)
Ascii ==
    <<
     " ", "!", "\"", "#", "$", "%", "&", "'", "(", ")", "*", "+", ",", "-",
     ".", "/", "0", "1", "2", "3", "4", "5", "6", "7", "8", "9", ":", ";",
     "<", "=", ">", "?", "@", "A", "B", "C", "D", "E", "F", "G", "H", "I",
     "J", "K", "L", "M", "N", "O", "P", "Q", "R", "S", "T", "U", "V", "W",
     "X", "Y", "Z", "[", "\\", "]", "^", "_", "GRAVE", "a", "b", "c", "d",
     "e", "f", "g", "h", "i", "j", "k", "l", "m", "n", "o", "p", "q", "r",
     "s", "t", "u", "v", "w", "x", "y", "z", "{", "|", "}", "~"
    >>

\* the character of a byte of the decoded manifest (the manifests tried hold
\* printable ASCII only; any other byte shows as "?")
CharOf(byte) == IF byte \in 32..126 THEN Ascii[byte - 31] ELSE "?"

Base64Alphabet ==
    <<
     "A", "B", "C", "D", "E", "F", "G", "H", "I", "J", "K", "L", "M", "N",
     "O", "P", "Q", "R", "S", "T", "U", "V", "W", "X", "Y", "Z", "a", "b",
     "c", "d", "e", "f", "g", "h", "i", "j", "k", "l", "m", "n", "o", "p",
     "q", "r", "s", "t", "u", "v", "w", "x", "y", "z", "0", "1", "2", "3",
     "4", "5", "6", "7", "8", "9", "+", "/"
    >>

\* the six bits a base64 character stands for ('-' and '_' are read as '+'
\* and '/'); characters outside the alphabet, padding included, carry none
IsBase64Char(ch) == ch \in {"-", "_"} \/ \E i \in 1..64 : Base64Alphabet[i] = ch
SextetOf(ch) ==
    IF ch = "-" THEN 62 ELSE IF ch = "_" THEN 63
    ELSE (CHOOSE i \in 1..64 : Base64Alphabet[i] = ch) - 1

\* Buffer.from(text, 'base64'): every 4 characters give 3 bytes, a rest of 3
\* gives 2 bytes and a rest of 2 gives 1 byte
Base64Bytes(text) ==
    LET kept == SelectSeq(text, IsBase64Char)
        sx == [i \in 1..Len(kept) |-> SextetOf(kept[i])]
    IN  [k \in 1..((Len(sx) * 6) \div 8) |->
            LET g == 4 * ((k - 1) \div 3)
                j == (k - 1) % 3
            IN  CASE j = 0 -> sx[g + 1] * 4 + sx[g + 2] \div 16
                  [] j = 1 -> (sx[g + 2] % 16) * 16 + sx[g + 3] \div 4
                  [] j = 2 -> (sx[g + 3] % 4) * 64 + sx[g + 4]]

\* APIService.decodeManifest, of the JSON value of info.manifest
decodeManifest(manifest) ==
    IF ~Truthy(manifest) \/ manifest.t # "string" THEN <<>>
    ELSE LET bytes == Base64Bytes(manifest.v)
         IN  [i \in 1..Len(bytes) |-> CharOf(bytes[i])]

\* text.includes(part)
Includes(text, part) ==
    \E i \in 1..(Len(text) - Len(part) + 1) : SubSeq(text, i, i + Len(part) - 1) = part

\* APIService.isDashManifest
isDashManifest(manifestContent) == Includes(manifestContent, <<"<", "M", "P", "D">>)

\* \w of a regular expression
WordChars ==
    {Ascii[code - 31] : code \in (48..57) \cup (65..90) \cup (97..122)} \cup {"_"}
\* the class [\w\-.~:?#[@!$&'()*+,;=%/]
UrlChars ==
    WordChars \cup {"-", ".", "~", ":", "?", "#", "[", "@", "!", "$", "&", "'", "(", ")",
                    "*", "+", ",", ";", "=", "%", "/"}

\* decoded.match(/https?:\/\/[\w\-.~:?#[@!$&'()*+,;=%/]+/): the leftmost place
\* where a scheme is followed by a character of the class, and from there
\* the longest run of the class; null when there is none
UrlMatch(decoded) ==
    LET At0(i, part) ==
            /\ i + Len(part) - 1 <= Len(decoded)
            /\ SubSeq(decoded, i, i + Len(part) - 1) = part
        Scheme(i) == IF At0(i, <<"h", "t", "t", "p", "s", ":", "/", "/">>) THEN 8
                     ELSE IF At0(i, <<"h", "t", "t", "p", ":", "/", "/">>) THEN 7 ELSE 0
        Run(j) == LET stops == {k \in j..Len(decoded) : decoded[k] \notin UrlChars}
                  IN  (IF stops = {} THEN Len(decoded) + 1 ELSE Min(stops)) - j
        places == {i \in 1..Len(decoded) : Scheme(i) > 0 /\ Run(i + Scheme(i)) > 0}
    IN  IF places = {} THEN JNull
        ELSE LET i == Min(places)
             IN  JStr(SubSeq(decoded, i, i + Scheme(i) + Run(i + Scheme(i)) - 1))

\* JSON.parse over the characters of a text: objects, arrays, strings with
\* the escapes \" \\ and \/, integers and the three literals (the texts
\* tried hold no other escape and no fraction or exponent)
JsonWhitespace == {" ", "\t", "\n", "\r"}
SkipWs(s) ==
    LET stops == {i \in 1..Len(s) : s[i] \notin JsonWhitespace}
    IN  IF stops = {} THEN <<>> ELSE SubSeq(s, Min(stops), Len(s))

SyntaxError == [error |-> "SyntaxError"]
NoParse == [ok |-> FALSE]
Parsed(v, rest) == [ok |-> TRUE, v |-> v, rest |-> rest]

\* the object of the members read, a later member replacing an earlier one
\* of the same name
ObjectOf(members) ==
    JObj([name \in {members[i][1] : i \in 1..Len(members)} |->
            members[Max({i \in 1..Len(members) : members[i][1] = name})][2]])

RECURSIVE ParseString(_, _), ParseValue(_), ParseElements(_, _), ParseMembers(_, _)
\* the characters of a string after its opening quote
ParseString(s, acc) ==
    IF s = <<>> THEN NoParse
    ELSE IF Head(s) = "\"" THEN Parsed(JStr(acc), Tail(s))
    ELSE IF Head(s) = "\\"
    THEN IF Len(s) >= 2 /\ s[2] \in {"\"", "\\", "/"}
         THEN ParseString(SubSeq(s, 3, Len(s)), Append(acc, s[2]))
         ELSE NoParse
    ELSE ParseString(Tail(s), Append(acc, Head(s)))
\* the elements of an array after "[" and the elements read so far
ParseElements(s, acc) ==
    LET element == ParseValue(s)
        rest == SkipWs(element.rest)
    IN  IF ~element.ok \/ rest = <<>> THEN NoParse
        ELSE IF Head(rest) = "," THEN ParseElements(Tail(rest), Append(acc, element.v))
        ELSE IF Head(rest) = "]" THEN Parsed(JArr(Append(acc, element.v)), Tail(rest))
        ELSE NoParse
\* the members of an object after "{" and the members read so far
ParseMembers(s, acc) ==
    LET start == SkipWs(s)
        name == IF start # <<>> /\ Head(start) = "\"" THEN ParseString(Tail(start), <<>>)
                ELSE NoParse
        colon == IF name.ok THEN SkipWs(name.rest) ELSE <<>>
        value == IF colon # <<>> /\ Head(colon) = ":" THEN ParseValue(Tail(colon))
                 ELSE NoParse
        rest == IF value.ok THEN SkipWs(value.rest) ELSE <<>>
        members == Append(acc, <<name.v.v, value.v>>)
    IN  IF rest = <<>> THEN NoParse
        ELSE IF Head(rest) = "," THEN ParseMembers(Tail(rest), members)
        ELSE IF Head(rest) = "}" THEN Parsed(ObjectOf(members), Tail(rest))
        ELSE NoParse
ParseValue(s0) ==
    LET s == SkipWs(s0)
        digits == IF s # <<>> /\ Head(s) = "0" THEN <<"0">> ELSE LeadingDigits(s)
        After(n) == SubSeq(s, n + 1, Len(s))
    IN  IF s = <<>> THEN NoParse
        ELSE IF Head(s) = "\"" THEN ParseString(Tail(s), <<>>)
        ELSE IF Head(s) = "["
        THEN IF SkipWs(Tail(s)) # <<>> /\ Head(SkipWs(Tail(s))) = "]"
             THEN Parsed(JArr(<<>>), Tail(SkipWs(Tail(s))))
             ELSE ParseElements(Tail(s), <<>>)
        ELSE IF Head(s) = "{"
        THEN IF SkipWs(Tail(s)) # <<>> /\ Head(SkipWs(Tail(s))) = "}"
             THEN Parsed(JObj(<<>>), Tail(SkipWs(Tail(s))))
             ELSE ParseMembers(Tail(s), <<>>)
        ELSE IF StartsWith(s, <<"n", "u", "l", "l">>) THEN Parsed(JNull, After(4))
        ELSE IF StartsWith(s, <<"t", "r", "u", "e">>) THEN Parsed(JBool(TRUE), After(4))
        ELSE IF StartsWith(s, <<"f", "a", "l", "s", "e">>) THEN Parsed(JBool(FALSE), After(5))
        ELSE IF digits # <<>> THEN Parsed(JNum(ParseInt(digits)), After(Len(digits)))
        ELSE NoParse

\* JSON.parse(text): the value, or the SyntaxError it throws
JSONParse(text) ==
    LET result == ParseValue(text)
    IN  IF result.ok /\ SkipWs(result.rest) = <<>> THEN result.v ELSE SyntaxError

\* value?.[0]
Index0(v) ==
    CASE v.t = "array" -> IF v.items = <<>> THEN Undefined ELSE v.items[1]
      [] v.t = "string" -> IF v.v = <<>> THEN Undefined ELSE JStr(<<v.v[1]>>)
      [] v.t = "object" -> Get(v, <<"0">>)
      [] OTHER -> Undefined

\* APIService.extractStreamUrlFromDecodedManifest
extractStreamUrlFromDecodedManifest(decoded) ==
    IF decoded = <<>> THEN JNull
    ELSE LET parsed == JSONParse(decoded)
         IN  IF parsed = SyntaxError THEN UrlMatch(decoded)
             ELSE IF Truthy(Index0(Get(parsed, <<"u", "r", "l", "s">>)))
             THEN Index0(Get(parsed, <<"u", "r", "l", "s">>))
             ELSE IF parsed.t = "string" THEN parsed
             ELSE JNull

\* the manifests of the payloads, in base64
Manifests ==
    {\* {"urls":["https://h/a"]}
     <<"e", "y", "J", "1", "c", "m", "x", "z", "I", "j", "p", "b", "I", "m",
       "h", "0", "d", "H", "B", "z", "O", "i", "8", "v", "a", "C", "9", "h",
       "I", "l", "1", "9">>,
     \* "https://h/b"
     <<"I", "m", "h", "0", "d", "H", "B", "z", "O", "i", "8", "v", "a", "C",
       "9", "i", "I", "g", "=", "=">>,
     \* {"url":"https://h/c"}
     <<"e", "y", "J", "1", "c", "m", "w", "i", "O", "i", "J", "o", "d", "H",
       "R", "w", "c", "z", "o", "v", "L", "2", "g", "v", "Y", "y", "J", "9">>,
     \* see https://h/d now
     <<"c", "2", "V", "l", "I", "G", "h", "0", "d", "H", "B", "z", "O", "i",
       "8", "v", "a", "C", "9", "k", "I", "G", "5", "v", "d", "w", "=", "=">>,
     \* no url
     <<"b", "m", "8", "g", "d", "X", "J", "s">>,
     \* <MPD></MPD>
     <<"P", "E", "1", "Q", "R", "D", "4", "8", "L", "0", "1", "Q", "R", "D",
       "4", "=">>,
     \* {"urls":[]}
     <<"e", "y", "J", "1", "c", "m", "x", "z", "I", "j", "p", "b", "X", "X",
       "0", "=">>,
     \* {"urls":["https://h/e"
     <<"e", "y", "J", "1", "c", "m", "x", "z", "I", "j", "p", "b", "I", "m",
       "h", "0", "d", "H", "B", "z", "O", "i", "8", "v", "a", "C", "9", "l",
       "I", "g", "=", "=">>,
     \* ["http://h/f"]
     <<"W", "y", "J", "o", "d", "H", "R", "w", "O", "i", "8", "v", "a", "C",
       "9", "m", "I", "l", "0", "=">>,
     \* null
     <<"b", "n", "V", "s", "b", "A", "=", "=">>,
     \* {"urls":[5],"n":"https://h/g"}
     <<"e", "y", "J", "1", "c", "m", "x", "z", "I", "j", "p", "b", "N", "V",
       "0", "s", "I", "m", "4", "i", "O", "i", "J", "o", "d", "H", "R", "w",
       "c", "z", "o", "v", "L", "2", "g", "v", "Z", "y", "J", "9">>,
     \* the empty string
     <<>>
    }

\* the raw stream URL the upstream declares
DeclaredStreamUrl == JStr(<<"h", "t", "t", "p", "s", ":", "/", "/", "r", "a", "w", "/", "1">>)

\* the bodies a track lookup answers with: an object with the manifest, bare
\* or under data, with or without a declared raw URL; the array of tagged
\* objects; an object without manifest
StreamPayloads ==
    UNION {{JObj([trackId |-> JNum(1), duration |-> JNum(200), manifest |-> JStr(m)]),
            JObj([trackId |-> JNum(1), duration |-> JNum(200), manifest |-> JStr(m),
                  OriginalTrackUrl |-> DeclaredStreamUrl]),
            JObj([data |-> JObj([trackId |-> JNum(1), manifest |-> JStr(m),
                                 OriginalTrackUrl |-> DeclaredStreamUrl])]),
            JArr(<<JObj([duration |-> JNum(200), id |-> JNum(1)]),
                   JObj([manifest |-> JStr(m)]),
                   JObj([OriginalTrackUrl |-> DeclaredStreamUrl])>>)} : m \in Manifests}
        \cup {JObj([trackId |-> JNum(1), duration |-> JNum(200),
                    OriginalTrackUrl |-> DeclaredStreamUrl])}

\* fetchTrackBuffer after getTrack: getTrack's error passes through; else,
\* once resolveTrackMetadata has settled (it never throws), a DASH manifest
\* goes to the DASH downloader, and any other manifest gives the stream URL
\* that is fetched, or the error when there is none
ResolveStreamUrl ==
    /\ tb.pc = "lookup"
    /\ LET trackData == tb.trackData
           manifestContent == decodeManifest(Get(trackData.info, "manifest"))
           streamUrl == IF Truthy(trackData.originalTrackUrl)
                        THEN trackData.originalTrackUrl
                        ELSE extractStreamUrlFromDecodedManifest(manifestContent)
       IN  tb' = IF trackData = Malformed
                 THEN [tb EXCEPT !.pc = "failed", !.error = Malformed.error]
                 ELSE IF isDashManifest(manifestContent)
                 THEN [tb EXCEPT !.pc = "dash", !.manifestContent = manifestContent]
                 ELSE IF ~Truthy(streamUrl)
                 THEN [tb EXCEPT !.pc = "failed", !.manifestContent = manifestContent,
                                 !.streamUrl = streamUrl,
                                 !.error = "Could not resolve stream URL from manifest"]
                 ELSE [tb EXCEPT !.pc = "fetchBuffer", !.manifestContent = manifestContent,
                                 !.streamUrl = streamUrl,
                                 !.gets = Append(tb.gets, streamUrl)]
    /\ UNCHANGED <<calls, activeDownloads, activeMetadataRefresh, filesTable, disk,
                   downloadQuality, metadata, now, deletes, prefChanges, fw, rp, sr, em>>

\* fetchBuffer: the response is not ok
FetchBufferFails ==
    /\ tb.pc = "fetchBuffer"
    /\ tb' = [tb EXCEPT !.pc = "failed", !.error = "Stream fetch failed"]
    /\ UNCHANGED <<calls, activeDownloads, activeMetadataRefresh, filesTable, disk,
                   downloadQuality, metadata, now, deletes, prefChanges, fw, rp, sr, em>>

InitStreamUrl ==
    /\ em = [pc |-> "off"]
    /\ calls = [c \in Calls |-> IdleCall]
    /\ activeDownloads = {}
    /\ activeMetadataRefresh = {}
    /\ filesTable = {}
    /\ disk = {}
    /\ downloadQuality = PASSTHROUGH
    /\ metadata = {}
    /\ now = 0
    /\ deletes = 0
    /\ prefChanges = 0
    /\ fw = [pc |-> "off"]
    /\ rp = [pc |-> "off"]
    /\ sr = [pc |-> "off"]
    /\ \E p \in StreamPayloads, b \in {BufferOf(<<102, 76, 97, 67>>, 12), <<>>} :
            tb = [pc |-> "getTrack", payload |-> p, trackData |-> Undefined,
                  manifestContent |-> <<>>, streamUrl |-> Undefined, gets |-> <<>>,
                  error |-> "", buffer |-> b, ext |-> ""]

NextStreamUrl ==
    \/ GetTrackSettles
    \/ ResolveStreamUrl
    \/ FetchBufferSettles
    \/ FetchBufferFails

StreamUrlSpec == InitStreamUrl /\ [][NextStreamUrl]_vars

----------------------------------------------------------------------------
(* DashDownloader.downloadDashStream over the manifest as the XML parser
   hands it over: elements are objects, attributes are strings under names
   that start with "@_", an element without attributes or children is the
   empty string, and repeated elements form an array *)

\* an object of the fields that are present
ObjectWith(pairs) ==
    JObj([name \in {p[1] : p \in {q \in pairs : q[2] # Undefined}} |->
            (CHOOSE p \in pairs : p[1] = name)[2]])

\* a || b
Or(a, b) == IF Truthy(a) THEN a ELSE b

\* first(value)
First(value) ==
    IF value.t = "array"
    THEN (IF value.items = <<>> THEN Undefined ELSE value.items[1])
    ELSE value

\* parseInt(text) of a string of digits with an optional sign (the attribute
\* values tried are of this form)
parseInt(text) ==
    IF Head(text.v) = "-" THEN 0 - ParseInt(Tail(text.v)) ELSE ParseInt(text.v)

\* a decimal numeral as a fraction: parseFloat of digits, or of digits "."
\* digits
parseFloat(whole, fraction) ==
    IF fraction = <<>> THEN [num |-> ParseInt(whole), den |-> 1]
    ELSE [num |-> ParseInt(whole \o fraction),
          den |-> 10 ^ Len(fraction)]

\* DashDownloader.parseDuration: the leftmost "PT", digits, an optional "."
\* and digits, then "S"; 300 when there is no such place
parseDuration(duration) ==
    LET After(i) == SubSeq(duration, i + 2, Len(duration))
        Whole(i) == LeadingDigits(After(i))
        Rest(i) == SubSeq(After(i), Len(Whole(i)) + 1, Len(After(i)))
        Fraction(i) == IF Rest(i) # <<>> /\ Head(Rest(i)) = "."
                       THEN LeadingDigits(Tail(Rest(i))) ELSE <<>>
        Tail1(i) == IF Fraction(i) = <<>> THEN Rest(i)
                    ELSE SubSeq(Rest(i), Len(Fraction(i)) + 2, Len(Rest(i)))
        places == {i \in 1..(Len(duration) - 1) :
                        /\ SubSeq(duration, i, i + 1) = <<"P", "T">>
                        /\ Whole(i) # <<>>
                        /\ Tail1(i) # <<>> /\ Head(Tail1(i)) = "S"}
    IN  IF places = {} THEN [num |-> 300, den |-> 1]
        ELSE parseFloat(Whole(Min(places)), Fraction(Min(places)))

\* Math.ceil(a / b) for a >= 0 and b > 0
CeilDiv(a, b) == (a + b - 1) \div b

\* mutant: the quotient is rounded down
EstimatedSegmentsFloor(seconds, duration, timescale) ==
    IF timescale = 0 THEN 0
    ELSE (seconds.num * timescale) \div (seconds.den * duration)

\* Math.ceil(seconds / (duration / timescale)), duration > 0: with timescale
\* 0 the segment duration is Infinity and the quotient 0 (the quotients
\* tried are far enough from an integer for double arithmetic to agree)
EstimatedSegments(seconds, duration, timescale) ==
    IF timescale = 0 THEN 0
    ELSE CeilDiv(seconds.num * timescale, seconds.den * duration)

\* segments.reduce((sum, s) => sum + 1 + parseInt(s['@_r'] || '0'), 0)
RECURSIVE TimelineSegments(_)
TimelineSegments(segments) ==
    IF segments = <<>> THEN 0
    ELSE 1 + parseInt(Or(Get(Head(segments), "@_r"), JStr(<<"0">>)))
           + TimelineSegments(Tail(segments))

NoSegmentCount == [error |-> "Cannot determine segment count"]

\* mutant: a segment duration takes priority over the timeline
SegmentCountDurationFirst(mpd, segmentTemplate) ==
    LET segmentTimeline == Get(segmentTemplate, "SegmentTimeline")
        duration == parseInt(Or(Get(segmentTemplate, "@_duration"), JStr(<<"0">>)))
        timescale == parseInt(Or(Get(segmentTemplate, "@_timescale"), JStr(<<"1">>)))
        S == Get(segmentTimeline, "S")
        periodDuration == Or(Get(mpd, "@_mediaPresentationDuration"),
                             JStr(<<"P", "T", "3", "0", "0", "S">>))
    IN  IF duration # 0
        THEN [count |-> EstimatedSegments(parseDuration(periodDuration.v),
                                          duration, timescale)]
        ELSE IF Truthy(segmentTimeline) /\ Truthy(S)
        THEN [count |-> TimelineSegments(IF S.t = "array" THEN S.items ELSE <<S>>)]
        ELSE NoSegmentCount

\* the segment count of downloadDashStream, or the error it throws
SegmentCount(mpd, segmentTemplate) ==
    LET segmentTimeline == Get(segmentTemplate, "SegmentTimeline")
        duration == parseInt(Or(Get(segmentTemplate, "@_duration"), JStr(<<"0">>)))
        timescale == parseInt(Or(Get(segmentTemplate, "@_timescale"), JStr(<<"1">>)))
        S == Get(segmentTimeline, "S")
        periodDuration == Or(Get(mpd, "@_mediaPresentationDuration"),
                             JStr(<<"P", "T", "3", "0", "0", "S">>))
    IN  IF Truthy(segmentTimeline) /\ Truthy(S)
        THEN [count |-> TimelineSegments(IF S.t = "array" THEN S.items ELSE <<S>>)]
        ELSE IF duration # 0
        THEN [count |-> EstimatedSegments(parseDuration(periodDuration.v),
                                          duration, timescale)]
        ELSE NoSegmentCount

\* downloadDashStream from its call to the request for the initialization
\* segment: the elements are looked up, the segment count is worked out
DashManifestRead ==
    /\ tb.pc = "dash"
    /\ LET mpd == Get(tb.manifest, "MPD")
           period == First(Get(mpd, "Period"))
           adaptationSet == First(Get(period, "AdaptationSet"))
           representation == First(Get(adaptationSet, "Representation"))
           segmentTemplate == Or(Get(representation, "SegmentTemplate"),
                                 Get(adaptationSet, "SegmentTemplate"))
           startNumber == parseInt(Or(Get(segmentTemplate, "@_startNumber"), JStr(<<"0">>)))
           segmentCount == SegmentCount(mpd, segmentTemplate)
           Throw(message) == [tb EXCEPT !.pc = "failed", !.error = message]
       IN  tb' = IF ~Truthy(mpd) THEN Throw("Invalid DASH manifest: no MPD element")
                 ELSE IF ~Truthy(period)
                 THEN Throw("Invalid DASH manifest: no Period element")
                 ELSE IF ~Truthy(adaptationSet)
                 THEN Throw("Invalid DASH manifest: no AdaptationSet element")
                 ELSE IF ~Truthy(representation)
                 THEN Throw("Invalid DASH manifest: no Representation element")
                 ELSE IF ~Truthy(segmentTemplate)
                 THEN Throw("Invalid DASH manifest: no SegmentTemplate")
                 ELSE IF segmentCount = NoSegmentCount
                 THEN Throw(NoSegmentCount.error)
                 ELSE [tb EXCEPT !.pc = "init", !.segmentCount = segmentCount.count,
                                 !.startNumber = startNumber,
                                 !.requests = <<"init">>]
    /\ UNCHANGED <<calls, activeDownloads, activeMetadataRefresh, filesTable, disk,
                   downloadQuality, metadata, now, deletes, prefChanges, fw, rp, sr, em>>

\* the state after iteration i of the loop over the media segments: the
\* request for the next segment, or the return of the concatenated parts
AfterSegment(t, i) ==
    IF i < t.segmentCount
    THEN [t EXCEPT !.pc = "media", !.i = i,
                   !.requests = Append(t.requests, t.startNumber + i)]
    ELSE [t EXCEPT !.pc = "done", !.i = i]

\* the response for the initialization segment is ok and its body is read
InitSegmentSettles ==
    /\ tb.pc = "init"
    /\ tb' = AfterSegment([tb EXCEPT !.parts = <<"init">>], 0)
    /\ UNCHANGED <<calls, activeDownloads, activeMetadataRefresh, filesTable, disk,
                   downloadQuality, metadata, now, deletes, prefChanges, fw, rp, sr, em>>

\* mutant: a failed initialization segment is skipped like a media segment
InitSegmentSkipped ==
    /\ tb.pc = "init"
    /\ tb' = AfterSegment(tb, 0)
    /\ UNCHANGED <<calls, activeDownloads, activeMetadataRefresh, filesTable, disk,
                   downloadQuality, metadata, now, deletes, prefChanges, fw, rp, sr, em>>

\* the request for the initialization segment fails or is answered not ok
InitSegmentFails ==
    /\ tb.pc = "init"
    /\ tb' = [tb EXCEPT !.pc = "failed", !.error = "Failed to download init segment"]
    /\ UNCHANGED <<calls, activeDownloads, activeMetadataRefresh, filesTable, disk,
                   downloadQuality, metadata, now, deletes, prefChanges, fw, rp, sr, em>>

\* mutant: the body of a response is pushed without looking at response.ok
SegmentsAfterUnchecked(segments, ok, segmentNumber) == Append(segments, segmentNumber)

\* the array of parts after the request for a media segment has settled
SegmentsAfter(segments, ok, segmentNumber) ==
    IF ok THEN Append(segments, segmentNumber) ELSE segments

\* mutant: a media segment that could not be fetched is requested again
MediaSegmentRetried ==
    /\ tb.pc = "media"
    /\ \E ok \in BOOLEAN :
            tb' = IF ok THEN AfterSegment([tb EXCEPT !.parts = Append(@, tb.startNumber + tb.i),
                                                     !.responses = Append(@, ok)],
                                          tb.i + 1)
                  ELSE IF Len(tb.requests) < tb.segmentCount + 2
                  THEN [tb EXCEPT !.requests = Append(@, tb.startNumber + tb.i)]
                  ELSE AfterSegment([tb EXCEPT !.responses = Append(@, ok)], tb.i + 1)
    /\ UNCHANGED <<calls, activeDownloads, activeMetadataRefresh, filesTable, disk,
                   downloadQuality, metadata, now, deletes, prefChanges, fw, rp, sr, em>>

\* the request for a media segment settles: an ok response adds a part, a
\* response that is not ok or a failed request is skipped;
\* tb.responses keeps whether each settled request was answered ok
MediaSegmentSettles ==
    /\ tb.pc = "media"
    /\ \E ok \in BOOLEAN :
            tb' = AfterSegment([tb EXCEPT !.parts = SegmentsAfter(@, ok, tb.startNumber + tb.i),
                                          !.responses = Append(@, ok)],
                               tb.i + 1)
    /\ UNCHANGED <<calls, activeDownloads, activeMetadataRefresh, filesTable, disk,
                   downloadQuality, metadata, now, deletes, prefChanges, fw, rp, sr, em>>

\* mutant: the error of downloadDashStream is swallowed
DashStreamEndsWell(c) ==
    /\ tb.pc \in {"done", "failed"}
    /\ FetchBufferDone(c, TRUE)

\* downloadDashStream has returned its buffer or thrown: fetchTrackBuffer
\* passes either on to the downloadTrack that awaits it
DashStreamEnds(c) ==
    /\ tb.pc \in {"done", "failed"}
    /\ FetchBufferDone(c, tb.pc = "done")

\* the entries of a SegmentTimeline: with and without a repeat count
TimelineEntry(r) == ObjectWith({<<"@_d", JStr(<<"4", "0", "9", "6">>)>>, <<"@_r", r>>})
Timelines ==
    {Undefined, JStr(<<>>),
     JObj("S" :> JStr(<<>>)),
     JObj("S" :> TimelineEntry(JStr(<<"4">>))),
     JObj("S" :> TimelineEntry(Undefined)),
     JObj("S" :> JArr(<<TimelineEntry(Undefined), TimelineEntry(JStr(<<"2">>))>>)),
     JObj("S" :> JArr(<<TimelineEntry(JStr(<<"0">>)), TimelineEntry(JStr(<<"1">>)),
                        TimelineEntry(Undefined)>>))}
SegmentDurations ==
    {Undefined, JStr(<<"0">>), JStr(<<"2", "0", "0", "0">>), JStr(<<"3", "0", "0", "0">>), JStr(<<"1", "0", "0", "0", "0", "0">>)}
Timescales == {Undefined, JStr(<<"0">>), JStr(<<"1", "0", "0", "0">>)}
PresentationDurations ==
    {Undefined, JStr(<<"P", "T", "1", "0", "S">>), JStr(<<"P", "T", "1", "0", ".", "5", "S">>), JStr(<<"P", "T", "1", "M", "3", "0", "S">>)}

\* a SegmentTemplate element
DashTemplateFrom(startNumber, timeline, duration, timescale) ==
    ObjectWith({<<"@_initialization", JStr(<<"i", ".", "m", "p", "4">>)>>,
                <<"@_media", JStr(<<"$", "N", "u", "m", "b", "e", "r", "$", ".", "m", "p", "4">>)>>,
                <<"@_startNumber", startNumber>>,
                <<"@_duration", duration>>, <<"@_timescale", timescale>>,
                <<"SegmentTimeline", timeline>>})
DashTemplate(timeline, duration, timescale) ==
    DashTemplateFrom(JStr(<<"1">>), timeline, duration, timescale)

\* the elements above it; a child that is Undefined is left out
DashRepresentation(segmentTemplate) ==
    ObjectWith({<<"@_id", JStr(<<"0">>)>>, <<"SegmentTemplate", segmentTemplate>>})
DashAdaptationSet(representation, segmentTemplate) ==
    ObjectWith({<<"@_id", JStr(<<"0">>)>>, <<"Representation", representation>>,
                <<"SegmentTemplate", segmentTemplate>>})
DashPeriod(adaptationSet) ==
    ObjectWith({<<"@_id", JStr(<<"0">>)>>, <<"AdaptationSet", adaptationSet>>})
DashMpd(presentation, period) ==
    JObj("MPD" :> ObjectWith({<<"@_mediaPresentationDuration", presentation>>,
                              <<"@_type", JStr(<<"s", "t", "a", "t", "i", "c">>)>>,
                              <<"Period", period>>}))

\* a manifest with one Period, AdaptationSet and Representation
DashManifest(timeline, duration, timescale, presentation) ==
    DashMpd(presentation,
            DashPeriod(DashAdaptationSet(
                DashRepresentation(DashTemplate(timeline, duration, timescale)),
                Undefined)))

\* the manifests of the templates whose segment count is within the bound
TemplateManifests ==
    {DashManifest(timeline, duration, timescale, presentation) :
        <<timeline, duration, timescale, presentation>> \in
            {q \in Timelines \X SegmentDurations \X Timescales \X PresentationDurations :
                LET count == SegmentCount(
                                ObjectWith({<<"@_mediaPresentationDuration", q[4]>>}),
                                DashTemplate(q[1], q[2], q[3]))
                IN  IF count = NoSegmentCount THEN TRUE ELSE count.count <= MaxSegments}}

\* manifests that lack an element, have it empty, have it in the other
\* place or have it several times, or start at another segment number
StructureManifests ==
    LET template == DashTemplate(JObj("S" :> TimelineEntry(JStr(<<"1">>))),
                                 Undefined, Undefined)
        other == DashTemplate(JObj("S" :> TimelineEntry(JStr(<<"2">>))),
                              Undefined, Undefined)
        representation == DashRepresentation(template)
        adaptationSet == DashAdaptationSet(representation, Undefined)
    IN  {JObj(<<>>),
         JObj("MPD" :> JStr(<<>>)),
         DashMpd(Undefined, Undefined),
         DashMpd(Undefined, JStr(<<>>)),
         DashMpd(Undefined, DashPeriod(Undefined)),
         DashMpd(Undefined, DashPeriod(DashAdaptationSet(Undefined, Undefined))),
         DashMpd(Undefined, DashPeriod(DashAdaptationSet(Undefined, template))),
         DashMpd(Undefined, DashPeriod(DashAdaptationSet(DashRepresentation(Undefined),
                                                         Undefined))),
         DashMpd(Undefined, DashPeriod(DashAdaptationSet(DashRepresentation(Undefined),
                                                         template))),
         DashMpd(Undefined, DashPeriod(DashAdaptationSet(representation, other))),
         DashMpd(Undefined, JArr(<<DashPeriod(adaptationSet), DashPeriod(Undefined)>>)),
         DashMpd(Undefined, DashPeriod(JArr(<<adaptationSet,
                                              DashAdaptationSet(Undefined, Undefined)>>))),
         DashMpd(Undefined, DashPeriod(DashAdaptationSet(
                    JArr(<<representation, DashRepresentation(other)>>), Undefined))),
         DashMpd(Undefined, DashPeriod(DashAdaptationSet(
                    DashRepresentation(DashTemplateFrom(Undefined,
                        JObj("S" :> TimelineEntry(JStr(<<"2">>))), Undefined, Undefined)),
                    Undefined))),
         DashMpd(Undefined, DashPeriod(DashAdaptationSet(
                    DashRepresentation(DashTemplateFrom(JStr(<<"7">>),
                        JObj("S" :> TimelineEntry(JStr(<<"2">>))), Undefined, Undefined)),
                    Undefined)))}

\* the downloadTrack that awaits fetchTrackBuffer, after a miss of the cache
AwaitingCall ==
    [IdleCall EXCEPT !.method = "downloadTrack", !.trackId = "1",
                     !.quality = DEFAULT_QUALITY,
                     !.resolvedQuality = resolveDownloadQuality(PASSTHROUGH, DEFAULT_QUALITY),
                     !.preferredQuality = PASSTHROUGH,
                     !.pc = "fetchBuffer", !.marked = TRUE, !.net = {"track", "stream"}]

InitDash ==
    /\ em = [pc |-> "off"]
    /\ calls = [c \in Calls |-> IF c = 1 THEN AwaitingCall ELSE IdleCall]
    /\ activeDownloads = {getDownloadKey(AwaitingCall.trackId, AwaitingCall.resolvedQuality)}
    /\ activeMetadataRefresh = {}
    /\ filesTable = {}
    /\ disk = {}
    /\ downloadQuality = PASSTHROUGH
    /\ metadata = {}
    /\ now = 0
    /\ deletes = 0
    /\ prefChanges = 0
    /\ fw = [pc |-> "off"]
    /\ rp = [pc |-> "off"]
    /\ sr = [pc |-> "off"]
    /\ \E manifest \in TemplateManifests \cup StructureManifests :
            tb = [pc |-> "dash", manifest |-> manifest,
                  segmentCount |-> 0, startNumber |-> 0, i |-> 0, requests |-> <<>>,
                  responses |-> <<>>, parts |-> <<>>, error |-> ""]

NextDash ==
    \/ DashManifestRead
    \/ InitSegmentSettles
    \/ InitSegmentFails
    \/ MediaSegmentSettles
    \/ DashStreamEnds(1)
    \/ \E ok \in BOOLEAN : ResolveOutputPathStep(1, ok)
    \/ \E complete \in BOOLEAN : EnrichMetadataDone(1, complete)
    \/ \E ok \in BOOLEAN : WriteFileDone(1, ok)

DashSpec == InitDash /\ [][NextDash]_vars

----------------------------------------------------------------------------
(* ExposedManager, the listen tracker of the player *)

\* calls of onTrackChange, onPause, onResume and onPlaybackStop
MaxEvents == 4
\* seconds that Date.now() advances
MaxClock == 4

\* the cap of the threshold, in seconds
ScrobbleCap == 240
\* the percentage used when lastFMStorage has none
DefaultPercentage == 75

\* tracks as the player hands them over; the id "" stands for a track
\* without id, the duration 0 for a track without duration
ExposedTracks ==
    {[id |-> "a", duration |-> 4], [id |-> "a", duration |-> 0],
     [id |-> "b", duration |-> 2], [id |-> "b", duration |-> 400],
     [id |-> "", duration |-> 4]}
\* audioPlayer.duration
AudioDurations == {0, 2}
\* lastFMStorage.getScrobblePercentage(); 0 stands for none stored
Percentages == {0, 50}

\* track?.id
IdOf(track) == IF track = Null THEN "" ELSE track.id

\* mutant: _clearTimer forgets the timer without clearInterval
ClearTimerForgets(e) == [e EXCEPT !.timer = 0]

\* _clearTimer
ClearTimer(e) ==
    IF e.timer # 0
    THEN [e EXCEPT !.timers = {t \in @ : t.id # e.timer}, !.timer = 0]
    ELSE e

\* _startTimer: clearInterval of the timer held, then setInterval(..., 1000);
\* a timer is kept with the period of play in which it was created
StartTimer(e) ==
    LET id == e.created + 1
        kept == IF e.timer # 0 THEN {t \in e.timers : t.id # e.timer} ELSE e.timers
    IN  [e EXCEPT !.timers = kept \cup {[id |-> id, due |-> e.clock + 1,
                                          period |-> Len(e.periods)]},
                  !.timer = id, !.created = id]

\* the body of onTrackChange; e.periods keeps the id of the track of every
\* period of play ("" after onPlaybackStop and for a track without id)
TrackChanged(e, track, audioDuration, percentage) ==
    LET reset == [ClearTimer(e) EXCEPT !.logged = FALSE, !.elapsed = 0,
                                       !.currentTrack = track,
                                       !.periods = Append(@, IdOf(track))]
        duration == IF track = Null THEN 0
                    ELSE IF track.duration # 0 THEN track.duration ELSE audioDuration
        pct == IF percentage # 0 THEN percentage ELSE DefaultPercentage
    IN  IF IdOf(track) = "" THEN reset
        ELSE IF duration <= 0 THEN reset
        ELSE StartTimer([reset EXCEPT !.threshold100 = MinOf(duration * pct, ScrobbleCap * 100),
                                      !.startTime = e.clock])

\* the player's handlers are called while events are left
Handling == em.pc = "on" /\ em.events < MaxEvents

OnTrackChange(track, audioDuration, percentage) ==
    /\ Handling
    /\ em' = [TrackChanged(em, track, audioDuration, percentage) EXCEPT !.events = @ + 1]
    /\ UNCHANGED <<calls, activeDownloads, activeMetadataRefresh, filesTable, disk,
                   downloadQuality, metadata, now, deletes, prefChanges, fw, rp, sr, tb>>

OnPause ==
    /\ Handling
    /\ em' = IF em.timer # 0
             THEN [em EXCEPT !.elapsed = @ + (em.clock - em.startTime),
                             !.timers = {t \in @ : t.id # em.timer}, !.timer = 0,
                             !.events = @ + 1]
             ELSE [em EXCEPT !.events = @ + 1]
    /\ UNCHANGED <<calls, activeDownloads, activeMetadataRefresh, filesTable, disk,
                   downloadQuality, metadata, now, deletes, prefChanges, fw, rp, sr, tb>>

OnResume(track, audioDuration, percentage) ==
    /\ Handling
    /\ em' = IF em.currentTrack = Null \/ IdOf(em.currentTrack) # IdOf(track)
             THEN [TrackChanged(em, track, audioDuration, percentage) EXCEPT !.events = @ + 1]
             ELSE IF em.logged
             THEN [em EXCEPT !.events = @ + 1]
             ELSE [StartTimer([em EXCEPT !.startTime = em.clock]) EXCEPT !.events = @ + 1]
    /\ UNCHANGED <<calls, activeDownloads, activeMetadataRefresh, filesTable, disk,
                   downloadQuality, metadata, now, deletes, prefChanges, fw, rp, sr, tb>>

OnPlaybackStop ==
    /\ Handling
    /\ em' = [ClearTimer(em) EXCEPT !.currentTrack = Null, !.logged = FALSE, !.elapsed = 0,
                                    !.periods = Append(@, ""), !.events = @ + 1]
    /\ UNCHANGED <<calls, activeDownloads, activeMetadataRefresh, filesTable, disk,
                   downloadQuality, metadata, now, deletes, prefChanges, fw, rp, sr, tb>>

\* _logListen: the entry is stored when Exposed is enabled, a user is signed
\* in and the track has an id
LogListen(listens, track, enabled, authenticated, entry) ==
    IF enabled /\ authenticated /\ IdOf(track) # "" THEN Append(listens, entry) ELSE listens

\* the callback of an interval timer that was not cleared runs, a second or
\* more after the timer was set or ran last
TimerTick(id) ==
    /\ em.pc = "on"
    /\ \E t \in em.timers :
        /\ t.id = id /\ em.clock >= t.due
        /\ LET totalElapsed == em.elapsed + (em.clock - em.startTime) IN
           IF totalElapsed * 100 >= em.threshold100 /\ ~em.logged
           THEN \E enabled, authenticated \in BOOLEAN :
                    em' = [em EXCEPT
                            !.logged = TRUE,
                            !.listens = LogListen(@, em.currentTrack, enabled, authenticated,
                                            [trackId |-> IdOf(em.currentTrack),
                                             period |-> Len(em.periods),
                                             timerPeriod |-> t.period]),
                            !.timers = {u \in @ : u.id # em.timer},
                            !.timer = 0]
           ELSE em' = [em EXCEPT !.timers = (@ \ {t}) \cup {[t EXCEPT !.due = em.clock + 1]}]
    /\ UNCHANGED <<calls, activeDownloads, activeMetadataRefresh, filesTable, disk,
                   downloadQuality, metadata, now, deletes, prefChanges, fw, rp, sr, tb>>

\* a second passes
ClockAdvances ==
    /\ em.pc = "on" /\ em.clock < MaxClock
    /\ em' = [em EXCEPT !.clock = @ + 1]
    /\ UNCHANGED <<calls, activeDownloads, activeMetadataRefresh, filesTable, disk,
                   downloadQuality, metadata, now, deletes, prefChanges, fw, rp, sr, tb>>

\* the state after the constructor
InitExposed ==
    /\ calls = [c \in Calls |-> IdleCall]
    /\ activeDownloads = {}
    /\ activeMetadataRefresh = {}
    /\ filesTable = {}
    /\ disk = {}
    /\ downloadQuality = PASSTHROUGH
    /\ metadata = {}
    /\ now = 0
    /\ deletes = 0
    /\ prefChanges = 0
    /\ fw = [pc |-> "off"]
    /\ rp = [pc |-> "off"]
    /\ sr = [pc |-> "off"]
    /\ tb = [pc |-> "off"]
    /\ em = [pc |-> "on", timer |-> 0, elapsed |-> 0, threshold100 |-> 0,
             currentTrack |-> Null, startTime |-> 0, logged |-> FALSE,
             timers |-> {}, created |-> 0, clock |-> 0, events |-> 0,
             periods |-> <<>>, listens |-> <<>>]

NextExposed ==
    \/ OnPlaybackStop
    \/ OnPause
    \/ \E track \in ExposedTracks \cup {Null}, d \in AudioDurations, p \in Percentages :
            OnResume(track, d, p)
    \/ \E track \in ExposedTracks \cup {Null}, d \in AudioDurations, p \in Percentages :
            OnTrackChange(track, d, p)
    \/ \E id \in 1..MaxEvents : TimerTick(id)
    \/ ClockAdvances

ExposedSpec == InitExposed /\ [][NextExposed]_vars

----------------------------------------------------------------------------
(* Properties of the download coordinator *)

IsDownload(c) == calls[c].method = "downloadTrack"
Done(c) == calls[c].pc = "done"

\* the call has marked its key and its fetch-and-persist has not ended
InFetch(c) == IsDownload(c) /\ calls[c].marked /\ ~Done(c)

SameKey(c, d) ==
    /\ calls[c].trackId = calls[d].trackId
    /\ calls[c].resolvedQuality = calls[d].resolvedQuality

RowOf(table, trackId, quality) ==
    {r \in table : r.track_id = normalizeTrackId(trackId) /\ r.quality = quality}

\* C1: of the downloadTrack calls for one key that run concurrently, only one
\* performs the upstream fetch and the file write: no two calls for the same
\* key are in their fetch-and-persist at the same time.
C1_OneFetchPerKey ==
    \A c, d \in Calls : (c # d /\ InFetch(c) /\ InFetch(d)) => ~SameKey(c, d)

\* C2: while a call is between the ledger insert and the end of its
\* fetch-and-persist, its key is in activeDownloads.
C2_KeyHeldWhileFetching ==
    \A c \in Calls : InFetch(c) => DownloadKeyOf(c) \in activeDownloads

\* C3: a call that inserted its key removes it when its attempt ends, by a
\* return or by a throw; every key in the ledger belongs to a call still in
\* its fetch-and-persist (so with no call in progress the ledger is empty);
\* and when every operation completes, every call in its fetch-and-persist
\* eventually ends (a call that was in it and no longer is has ended) and
\* the ledger is empty again.
LedgerOwned ==
    \A k \in activeDownloads : \E c \in Calls : InFetch(c) /\ DownloadKeyOf(c) = k

C3_LedgerReleased ==
    /\ []LedgerOwned
    /\ [][\A c \in Calls :
            (InFetch(c) /\ calls'[c].pc = "done") =>
                getDownloadKey(calls'[c].trackId, calls'[c].resolvedQuality)
                    \notin activeDownloads']_vars
    /\ (\E c \in Calls : InFetch(c)) ~> (activeDownloads = {} /\ \A c \in Calls : ~InFetch(c))

C3_Witness ==
    \E c \in Calls : IsDownload(c) /\ calls[c].marked /\ Done(c)
                     /\ calls[c].status = "error" /\ activeDownloads = {}

\* C4: a downloadTrack attempt that fails ends with the error thrown to its
\* caller, and no row of the index was created or updated by that attempt.
C4_FailedAttemptLeavesNoRow ==
    \A c \in Calls :
        (IsDownload(c) /\ Done(c) /\ calls[c].status # "downloaded") =>
            /\ calls[c].marked => calls[c].status = "error"
            /\ \A r \in filesTable : r.by # c

\* a call whose writeFile failed, while the index holds another call's row
C4_Witness ==
    \E c \in Calls : /\ IsDownload(c) /\ calls[c].marked /\ Done(c)
                     /\ calls[c].status = "error"
                     /\ calls[c].filePath # NoPath
                     /\ filesTable # {}

C6_CheckCacheStable ==
    [][/\ \A r \in filesTable :
            (r.file_path \in disk /\ r.file_path \in disk') =>
                \E n \in filesTable' : /\ n.track_id = r.track_id
                                       /\ n.quality = r.quality
                                       /\ n.file_path = r.file_path
       /\ \A c \in Calls :
            (calls[c].pc = "checkCache" /\ calls'[c].pc # "checkCache"
                /\ calls[c].cached \notin disk) =>
                RowOf(filesTable', calls[c].trackId, calls[c].resolvedQuality) = {}]_vars

\* C7 as claimed: a downloadTrack call that returns 'cached' has made no
\* network request at all and never marked its key.
C7_CachedWithoutNetwork ==
    \A c \in Calls :
        (IsDownload(c) /\ calls[c].status = "cached") =>
            calls[c].net = {} /\ ~calls[c].marked

\* C7 as amended: a downloadTrack call whose key is not in the ledger and
\* whose checkCache finds the file returns 'cached' with the row's path,
\* writes no file and no row and does not insert its key; it issues no track
\* lookup and no stream request, and at most the metadata requests of the
\* background refreshMetadata it starts when stored metadata is missing.
C7_CachedWithoutFetch ==
    /\ [](\A c \in Calls :
            (IsDownload(c) /\ calls[c].status = "cached") =>
                /\ ~calls[c].marked
                /\ calls[c].net \subseteq {"metadata"}
                /\ calls[c].path # NoPath
                /\ \A r \in filesTable : r.by # c)
    /\ [][\A c \in Calls :
            (IsDownload(c) /\ calls[c].pc = "checkCache" /\ calls[c].cached \in disk
                /\ calls'[c] # calls[c]) =>
                /\ calls'[c].pc = "done" /\ calls'[c].status = "cached"
                /\ calls'[c].path = calls[c].cached
                /\ disk' = disk /\ filesTable' = filesTable
                /\ DownloadKeyOf(c) \notin activeDownloads'
                /\ calls'[c].net = (IF calls[c].trackId \in metadata
                                        \/ calls[c].trackId \in activeMetadataRefresh
                                    THEN {} ELSE {"metadata"})]_vars

\* a cache hit that started a metadata refresh
C7_Witness ==
    \E c \in Calls : IsDownload(c) /\ calls[c].status = "cached"
                     /\ calls[c].net = {"metadata"}

\* C15: concurrent downloads for distinct keys that succeed write to pairwise
\* distinct final paths: as long as no file was removed, no two successful
\* downloads of different keys have the same path.
C15_DistinctFinalPaths ==
    \A c, d \in Calls :
        (/\ c # d /\ IsDownload(c) /\ IsDownload(d) /\ ~SameKey(c, d)
         /\ calls[c].status = "downloaded" /\ calls[d].status = "downloaded"
         /\ deletes = 0) =>
            calls[c].path # calls[d].path

\* C10: the effective quality of downloadTrack, getStatus and getCachedFile
\* is the stored preference when it is set and is not 'player', else the
\* requested quality, else HI_RES_LOSSLESS; ledger keys and index rows are
\* made with it.
EffectiveQuality(preferred, requested) ==
    CASE preferred \notin {"", "player"} -> preferred
      [] preferred \in {"", "player"} /\ requested # "" -> requested
      [] OTHER -> "HI_RES_LOSSLESS"

\* the call is past resolveDownloadQuality (a throw before it leaves the
\* call unmarked)
Resolved(c) ==
    /\ calls[c].pc \notin {"idle", "ensureStorageDir"}
    /\ calls[c].status = "error" => calls[c].marked

C10_EffectiveQuality ==
    /\ \A c \in Calls :
        Resolved(c) =>
            calls[c].resolvedQuality =
                EffectiveQuality(calls[c].preferredQuality, calls[c].quality)
    /\ \A r \in filesTable : r.quality = calls[r.by].resolvedQuality
    /\ \A k \in activeDownloads : \E c \in Calls :
            k = calls[c].trackId \o "_" \o
                    EffectiveQuality(calls[c].preferredQuality, calls[c].quality)

\* a forced quality overriding the request of a download and of a query,
\* and a download without a requested quality under 'player'
C10_Witness ==
    /\ \E c \in Calls : /\ calls[c].method = "downloadTrack"
                         /\ calls[c].preferredQuality = "HIGH"
                         /\ calls[c].quality = "LOSSLESS"
                         /\ calls[c].resolvedQuality = "HIGH"
    /\ \E c \in Calls : /\ calls[c].method \in {"getStatus", "getCachedFile"}
                         /\ calls[c].preferredQuality = "HIGH"
                         /\ calls[c].quality = "LOSSLESS"
                         /\ calls[c].resolvedQuality = "HIGH"
    /\ \E c \in Calls : /\ calls[c].method = "downloadTrack"
                         /\ calls[c].preferredQuality = "player"
                         /\ calls[c].quality = ""
                         /\ calls[c].resolvedQuality = "HI_RES_LOSSLESS"

\* C11: 'player' is never a per-request or stored quality: whatever quality
\* a trigger request carries, the upstream lookup, the ledger key and the
\* index row of its download use a quality of {HI_RES_LOSSLESS, LOSSLESS,
\* HIGH, LOW}.
C11_PlayerNeverStored ==
    /\ \A c \in Calls :
            (IsDownload(c) /\ "track" \in calls[c].net) =>
                calls[c].resolvedQuality \in StoredQualities
    /\ \A k \in activeDownloads :
            \E t \in WireTrackIds, q \in StoredQualities : k = t \o "_" \o q
    /\ \A r \in filesTable : r.quality \in StoredQualities

----------------------------------------------------------------------------
(* Properties of the output path *)

\* the canonical form of the path lies in the storage root
WithinOutputDir(filePath) ==
    LET root == Components(OutputDir)
        parts == Components(PathResolve(filePath))
    IN  Len(root) <= Len(parts) /\ SubSeq(parts, 1, Len(root)) = root

\* C12: for every trackId, template, metadata and extension, the path
\* resolveOutputPath returns is contained in the storage root.
C12_PathWithinRoot ==
    rp.pc = "done" => WithinOutputDir(rp.filePath)

\* the template of the example evaluates to "../../etc/passwd"
TraversalTemplate == <<".", ".", "/", ".", ".", "/", "e", "t", "c", "/", "p", "a", "s", "s", "w", "d">>

\* C13 as claimed: a template that evaluates to "../../etc/passwd" makes the
\* destination <root>/<trackId>.<ext>.
C13_TraversalFallsBack ==
    (rp.pc = "done" /\ rp.evaluated = TraversalTemplate /\ rp.dir.files = {} /\ ~rp.dir.full) =>
        rp.filePath = OutputDir \o <<"/">> \o rp.trackId \o <<".">> \o rp.extension

\* C13 as amended: the ".." segments of such a template are dropped and the
\* rest is kept: buildFilename gives etc/passwd.<ext>, and the destination is
\* <root>/etc/passwd.<ext>, inside the root, whenever no file exists there.
C13_TraversalStripped ==
    LET kept == <<"e", "t", "c", "/", "p", "a", "s", "s", "w", "d", ".">> \o rp.extension IN
    /\ (rp.pc \in {"resolveOutputPath", "done"} /\ rp.evaluated = TraversalTemplate) =>
            rp.relativePath = kept
    /\ (rp.pc = "done" /\ rp.evaluated = TraversalTemplate
            /\ ~FileExists(rp.dir, OutputDir \o <<"/">> \o kept)) =>
            /\ rp.filePath = OutputDir \o <<"/">> \o kept
            /\ WithinOutputDir(rp.filePath)

C13_Witness ==
    /\ rp.pc = "done" /\ rp.evaluated = TraversalTemplate
    /\ rp.trackId = <<"1">>
    /\ rp.filePath = <<"/", "s", "r", "v", "/", "m", "/", "e", "t", "c", "/", "p", "a", "s", "s", "w", "d", ".", "f", "l", "a", "c">>

\* C14: for every state of the storage directory, the path resolveOutputPath
\* returns is one at which no file exists, so the write that follows never
\* overwrites an existing file.
C14_ReturnedPathIsFree ==
    rp.pc = "done" => ~FileExists(rp.dir, rp.filePath)

----------------------------------------------------------------------------
(* Properties of the stream route *)

\* the request got past stat with a Range header
RangeParsed ==
    sr.pc \in {"pipe", "done"} /\ sr.status \in {206, 416} /\ sr.header.form # "none"

\* C16: for a resource of size S, 'bytes=A-B' yields (A, min(B, S-1)),
\* 'bytes=A-' yields (A, S-1) and 'bytes=-N' yields (max(S-N, 0), S-1),
\* unless that range is unsatisfiable (start >= S or start > end); for
\* S = 1000: 'bytes=0-499' -> (0,499), 'bytes=-100' -> (900,999),
\* 'bytes=950-2000' -> (950,999), 'bytes=2000-2100' unsatisfiable.
C16_RangeParsed ==
    LET size == sr.size
        a == sr.header.a
        b == sr.header.b
        last == size - 1
        Span(start, end) ==
            IF start >= size \/ start > end THEN [null |-> TRUE]
            ELSE [start |-> start, end |-> end]
    IN  /\ (RangeParsed /\ sr.header.form = "both") =>
                sr.range = Span(a, IF b < last THEN b ELSE last)
        /\ (RangeParsed /\ sr.header.form = "from") => sr.range = Span(a, last)
        /\ (RangeParsed /\ sr.header.form = "suffix") =>
                sr.range = Span(IF size - b > 0 THEN size - b ELSE 0, last)
        /\ (RangeParsed /\ size = 1000) =>
                /\ sr.header.text = <<"b", "y", "t", "e", "s", "=", "0", "-", "4", "9", "9">> => sr.range = [start |-> 0, end |-> 499]
                /\ sr.header.text = <<"b", "y", "t", "e", "s", "=", "-", "1", "0", "0">> => sr.range = [start |-> 900, end |-> 999]
                /\ sr.header.text = <<"b", "y", "t", "e", "s", "=", "9", "5", "0", "-", "2", "0", "0", "0">> => sr.range = [start |-> 950, end |-> 999]
                /\ sr.header.text = <<"b", "y", "t", "e", "s", "=", "2", "0", "0", "0", "-", "2", "1", "0", "0">> => sr.range = [null |-> TRUE]

\* 'bytes=950-2000' on a file of 1000 bytes was parsed
C16_Witness ==
    /\ RangeParsed /\ sr.size = 1000
    /\ sr.header.text = <<"b", "y", "t", "e", "s", "=", "9", "5", "0", "-", "2", "0", "0", "0">>
    /\ sr.range = [start |-> 950, end |-> 999]

\* C17: a Stream request with a Range header on a cached file of size S is
\* answered 416 with 'Content-Range: bytes */S' and no body when a field of
\* the header is missing or not a number, or start >= S, or start > end; and
\* otherwise 206 with 0 <= start <= end <= S-1, 'Content-Range: bytes
\* start-end/S', Content-Length end-start+1 and exactly the bytes start..end
\* as body (none for HEAD).
C17_RangeResponse ==
    LET size == sr.size
        h == sr.header
        start == IF h.form = "suffix" THEN (IF size - h.b > 0 THEN size - h.b ELSE 0) ELSE h.a
        end == IF h.form = "both" /\ h.b < size - 1 THEN h.b ELSE size - 1
        unsatisfiable == h.form = "other" \/ start >= size \/ start > end
    IN  (RangeParsed /\ h.form \in {"both", "from", "suffix", "other"}) =>
            IF unsatisfiable
            THEN /\ sr.status = 416
                 /\ sr.contentRange = [star |-> TRUE, size |-> size]
                 /\ sr.pc = "done" /\ sr.body = {}
            ELSE /\ sr.status = 206
                 /\ 0 <= start /\ start <= end /\ end <= size - 1
                 /\ sr.contentRange = [star |-> FALSE, start |-> start, end |-> end, size |-> size]
                 /\ sr.contentLength = end - start + 1
                 /\ sr.pc = "done" =>
                        sr.body = IF sr.method = "HEAD" THEN {} ELSE start..end

\* the rows of a track
TrackRows(table, trackId) == {r \in table : r.track_id = normalizeTrackId(trackId)}

\* the lookups of a getCachedFile call with fallback, step by step: the
\* any-quality lookup starts only after the exact lookup has missed; a
\* 'cached' result of the exact lookup is the exact row's file, a 'cached'
\* result of the fallback is the file of a row of the track, and either file
\* exists; a 'not_found' result leaves no row of the track whose file exists
LookupOrder ==
    \A c \in Calls :
        (calls'[c].method = "getCachedFile" /\ calls'[c].fallback /\ calls'[c] # calls[c]) =>
            LET t == calls'[c].trackId
                q == calls'[c].resolvedQuality
            IN  /\ (calls'[c].pc = "checkAnyCache" /\ calls[c].pc # "checkAnyCache") =>
                        /\ \A r \in RowOf(filesTable, t, q) : r.file_path \notin disk
                        /\ RowOf(filesTable', t, q) = {}
                /\ (calls'[c].pc = "done" /\ calls'[c].status = "cached") =>
                        /\ calls'[c].path \in disk
                        /\ IF calls[c].pc = "checkCache"
                           THEN \E r \in RowOf(filesTable, t, q) : r.file_path = calls'[c].path
                           ELSE /\ calls[c].pc = "checkAnyCache"
                                /\ \E r \in TrackRows(filesTable, t) : r.file_path = calls'[c].path
                                /\ \A r \in RowOf(filesTable, t, q) : r.file_path \notin disk
                /\ (calls'[c].pc = "done" /\ calls'[c].status = "not_found") =>
                        /\ \A r \in TrackRows(filesTable, t) : r.file_path \notin disk
                        /\ TrackRows(filesTable', t) = {}

\* the answer of the status route: 'not_found' with available = false when
\* the lookups found no file, else 'cached' with available = true
StatusAnswer ==
    (sr.pc = "done" /\ sr.route = "status") =>
        /\ sr.reply.status = calls[sr.call].status
        /\ sr.reply.status \in {"cached", "not_found"}
        /\ sr.reply.available = (sr.reply.status = "cached")

\* C18 as claimed: the file is resolved by the exact lookup first and by the
\* any-quality fallback only after a miss; Stream answers 404 and Status
\* answers 'not_found' exactly when neither lookup found a row whose file
\* exists.
C18_NotFoundExactlyOnMiss ==
    /\ [][LookupOrder]_vars
    /\ []StatusAnswer
    /\ []((sr.pc = "done" /\ sr.route = "stream") =>
            (sr.status = 404 <=> calls[sr.call].status = "not_found"))

\* C18 as amended: the file is resolved by the exact lookup first and by the
\* any-quality fallback only after a miss; Status answers 'not_found' and
\* Stream answers 404 'Track not cached' exactly when neither lookup found a
\* row whose file exists; Stream also answers 404, 'Track not found', when
\* the file a lookup found is gone by the time it is opened, and in no other
\* case.
C18_NotFoundOnMissOrVanished ==
    /\ [][LookupOrder]_vars
    /\ []StatusAnswer
    /\ []((sr.pc = "done" /\ sr.route = "stream") =>
            /\ (sr.status = 404 /\ sr.error = "Track not cached")
                    <=> calls[sr.call].status = "not_found"
            /\ (sr.status = 404 /\ sr.error # "Track not cached") =>
                    /\ sr.error = "Track not found"
                    /\ calls[sr.call].status = "cached"
                    /\ sr.filePath = calls[sr.call].path
                    /\ sr.filePath \notin disk
                    /\ sr.body = {}
            /\ sr.status # 404 => sr.filePath = calls[sr.call].path)

\* a stream request served from a row of another quality after the exact
\* lookup purged its stale row
C18_Witness ==
    /\ sr.pc = "done" /\ sr.route = "stream" /\ sr.status = 206
    /\ calls[sr.call].resolvedQuality = "HI_RES_LOSSLESS"
    /\ calls[sr.call].path = Candidate("1", 2)
    /\ Cardinality(filesTable) = 1
    /\ deletes = 1

RequestStep == calls' # calls \/ sr' # sr

Entry(r) == [track_id |-> r.track_id, quality |-> r.quality, file_path |-> r.file_path]
Entries(table) == {Entry(r) : r \in table}

\* the rows of the keys other than (trackId, quality)
OtherKeys(table, trackId, quality) ==
    {r \in table : ~(r.track_id = normalizeTrackId(trackId) /\ r.quality = quality)}

\* C20: after any sequence of saveCache, checkCache and checkAnyCache the
\* index holds at most one row per (trackId, quality); a saveCache leaves
\* exactly one row for its key, holding its entry, and the rows of the other
\* keys as they were; saving an entry the index already holds changes nothing
\* but the timestamp, and so does saving it once more.
C20_IdempotentUpsert ==
    /\ [](\A r1, r2 \in filesTable :
            (r1.track_id = r2.track_id /\ r1.quality = r2.quality) => r1 = r2)
    /\ [][\A c \in Calls :
            (calls[c].pc = "idle" /\ calls'[c].method = "saveCache") =>
                LET t == calls'[c].trackId
                    q == calls'[c].quality
                    p == calls'[c].filePath
                    entry == [track_id |-> normalizeTrackId(t), quality |-> q, file_path |-> p]
                    again == saveCache(filesTable', t, q, p, now' + 1, c)
                IN  /\ Entries(RowOf(filesTable', t, q)) = {entry}
                    /\ Cardinality(RowOf(filesTable', t, q)) = 1
                    /\ OtherKeys(filesTable', t, q) = OtherKeys(filesTable, t, q)
                    /\ entry \in Entries(filesTable) =>
                            /\ Entries(filesTable') = Entries(filesTable)
                            /\ Cardinality(filesTable') = Cardinality(filesTable)
                    /\ Entries(again) = Entries(filesTable')
                    /\ Cardinality(again) = Cardinality(filesTable')]_vars

\* an entry saved twice and then replaced by an entry with another file for
\* the same key, next to a row of another key
C20_Witness ==
    \E c, d, e \in Calls :
        /\ c < d /\ d < e
        /\ calls[c].method = "saveCache" /\ calls[d].method = "saveCache"
        /\ calls[e].method = "saveCache"
        /\ calls[c].trackId = "1" /\ calls[d].trackId = " 1" /\ calls[e].trackId = "1"
        /\ calls[c].quality = calls[d].quality /\ calls[d].quality = calls[e].quality
        /\ calls[c].filePath = calls[d].filePath /\ calls[e].filePath # calls[d].filePath
        /\ Entries(RowOf(filesTable, "1", calls[e].quality)) =
                {[track_id |-> "1", quality |-> calls[e].quality,
                  file_path |-> calls[e].filePath]}
        /\ OtherKeys(filesTable, "1", calls[e].quality) # {}

\* the body has a trackId and at least one instance URL that is not blank
Usable(body) ==
    /\ body.trackId # ""
    /\ \E i \in 1..Len(body.apiInstances) : body.apiInstances[i] \notin {"", " "}

\* C21: a trigger request with a trackId and a non-blank instance URL is
\* answered {success: true, status: 'queued', trackId} in the turn that
\* starts its one downloadTrack call, before that call has ended; any other
\* trigger request is answered 400 and starts no download; and no later step,
\* whatever the download's outcome, changes a response.
C21_TriggerResponse ==
    [][\A c \in Calls :
        /\ (calls[c].pc = "idle" /\ calls'[c].pc # "idle") =>
            LET b == calls'[c].body IN
            /\ \A d \in Calls \ {c} : calls'[d] = calls[d]
            /\ IF Usable(b)
               THEN /\ calls'[c].response = [code |-> 200, success |-> TRUE,
                                             status |-> "queued", trackId |-> b.trackId]
                    /\ calls'[c].method = "downloadTrack"
                    /\ calls'[c].trackId = b.trackId
                    /\ calls'[c].pc # "done"
               ELSE /\ calls'[c].response.code = 400
                    /\ calls'[c].method # "downloadTrack"
                    /\ calls'[c].net = {}
                    /\ activeDownloads' = activeDownloads
                    /\ filesTable' = filesTable /\ disk' = disk
        /\ calls[c].pc # "idle" => calls'[c].response = calls[c].response]_vars

\* a queued trigger whose download failed later, and a rejected trigger
C21_Witness ==
    \E c, d \in Calls :
        /\ calls[c].response # Null /\ calls[c].response.code = 200
        /\ calls[c].method = "downloadTrack" /\ calls[c].status = "error"
        /\ calls[c].marked
        /\ calls[d].response # Null /\ calls[d].response.code = 400

----------------------------------------------------------------------------
(* Properties of the track lookup *)

\* the first entry of an array that is an object with the field, or undefined
FirstWith(items, name) ==
    LET at == {i \in 1..Len(items) : Has(items[i], name)}
    IN  IF at = {} THEN Undefined ELSE items[CHOOSE i \in at : \A k \in at : i <= k]

\* the raw stream URL an object declares, when it is a string
DeclaredUrl(entry) ==
    IF Get(entry, "OriginalTrackUrl").t = "string"
    THEN Get(entry, "OriginalTrackUrl") ELSE Undefined

\* the first raw stream URL declared by an entry of an array
FirstDeclaredUrl(items) ==
    LET at == {i \in 1..Len(items) : DeclaredUrl(items[i]).t = "string"}
    IN  IF at = {} THEN Undefined
        ELSE DeclaredUrl(items[CHOOSE i \in at : \A k \in at : i <= k])

\* the object a wrapped payload carries its fields in
Carrier(payload) ==
    IF Get(payload, "data").t = "object" THEN Get(payload, "data") ELSE payload

\* C22: getTrack turns an array payload that has an object with a duration
\* field and an object with a manifest field into track = the former, info =
\* the latter and originalTrackUrl = the raw stream URL an entry declares, if
\* any; it turns an object payload that carries a manifest, directly or under
\* data, into info = that object, a track with its duration and
\* originalTrackUrl = the raw stream URL it declares, if any; every other
\* payload raises 'Malformed track response'.
C22_LookupNormalized ==
    tb.pc = "lookup" =>
        LET p == tb.payload
            r == tb.trackData
        IN  IF p.t = "array" /\ FirstWith(p.items, "duration").t = "object"
                             /\ FirstWith(p.items, "manifest").t = "object"
            THEN /\ r # Malformed
                 /\ r.track = FirstWith(p.items, "duration")
                 /\ r.info = FirstWith(p.items, "manifest")
                 /\ r.originalTrackUrl = FirstDeclaredUrl(p.items)
            ELSE IF p.t = "object" /\ Has(Carrier(p), "manifest")
            THEN /\ r # Malformed
                 /\ r.info = Carrier(p)
                 /\ Get(r.track, "duration") = Coalesce(Get(Carrier(p), "duration"), JNum(0))
                 /\ r.originalTrackUrl = DeclaredUrl(Carrier(p))
            ELSE r = Malformed

\* the bytes of the buffer from offset (counted from 0) are the signature
Signature(buffer, offset, bytes) ==
    /\ Len(buffer) >= offset + Len(bytes)
    /\ SubSeq(buffer, offset + 1, offset + Len(bytes)) = bytes

\* C23: a buffer of at least 12 bytes maps to 'flac' if it starts with
\* 'fLaC', else 'm4a' if bytes 4-7 are 'ftyp', else 'mp3' if it starts with
\* 'ID3' or with 0xFF and a byte whose top three bits are set, else 'ogg' if
\* it starts with 'OggS', else 'wav' if it starts with 'RIFF', else 'audio';
\* a shorter buffer maps to 'audio'.
C23_DetectExtension ==
    tb.pc = "done" =>
        LET b == tb.buffer IN
        tb.ext =
            CASE Len(b) < 12 -> "audio"
              [] Len(b) >= 12 /\ Signature(b, 0, <<102, 76, 97, 67>>) -> "flac"
              [] Len(b) >= 12 /\ ~Signature(b, 0, <<102, 76, 97, 67>>)
                    /\ Signature(b, 4, <<102, 116, 121, 112>>) -> "m4a"
              [] Len(b) >= 12 /\ ~Signature(b, 4, <<102, 116, 121, 112>>)
                    /\ (\/ Signature(b, 0, <<73, 68, 51>>)
                        \/ (b[1] = 255 /\ b[2] \in 224..255)) -> "mp3"
              [] Len(b) >= 12 /\ ~Signature(b, 4, <<102, 116, 121, 112>>)
                    /\ Signature(b, 0, <<79, 103, 103, 83>>) -> "ogg"
              [] Len(b) >= 12 /\ ~Signature(b, 4, <<102, 116, 121, 112>>)
                    /\ Signature(b, 0, <<82, 73, 70, 70>>) -> "wav"
              [] OTHER -> "audio"

\* a buffer of 12 bytes or more that starts with 0xFF and is no frame sync
C23_Witness ==
    /\ tb.pc = "done" /\ tb.ext = "audio"
    /\ Len(tb.buffer) >= 12 /\ tb.buffer[1] = 255 /\ tb.buffer[2] = 192

\* the entries of a payload: the items of an array, or the object that
\* carries the fields
PayloadEntries(payload) ==
    IF payload.t = "array" THEN payload.items ELSE <<Carrier(payload)>>
\* the decoded manifest a payload carries
PayloadManifest(payload) ==
    decodeManifest(Get(FirstWith(PayloadEntries(payload), "manifest"), "manifest"))
\* fetchTrackBuffer got past the choice of the stream URL, or failed before
StreamResolved == tb.pc \in {"dash", "fetchBuffer", "done", "failed"}

\* C27: when the manifest of the track response is no DASH manifest, a
\* response that declares a raw stream URL and carries a manifest from which
\* a URL can be extracted leads to a single GET, of the declared URL; a
\* response with a manifest that declares no raw URL and whose manifest
\* yields none fails with 'Could not resolve stream URL from manifest'
\* and no GET.
C27_DeclaredUrlFetched ==
    StreamResolved =>
        LET p == tb.payload
            text == PayloadManifest(p)
            declared == FirstDeclaredUrl(PayloadEntries(p))
            carried == FirstWith(PayloadEntries(p), "manifest").t = "object"
            fromManifest == extractStreamUrlFromDecodedManifest(text)
        IN  /\ (carried /\ ~isDashManifest(text) /\ declared.t = "string"
                    /\ Truthy(fromManifest))
                => tb.gets = <<declared>>
            /\ (carried /\ ~isDashManifest(text) /\ declared.t # "string"
                    /\ ~Truthy(fromManifest))
                => /\ tb.gets = <<>>
                   /\ tb.pc = "failed"
                   /\ tb.error = "Could not resolve stream URL from manifest"

\* extractStreamUrlFromDecodedManifest was applied to the decoded manifest
ExtractApplied ==
    /\ tb.pc \in {"fetchBuffer", "done", "failed"}
    /\ IF tb.trackData = Malformed THEN FALSE
       ELSE ~Truthy(tb.trackData.originalTrackUrl)

\* C28: extractStreamUrlFromDecodedManifest returns urls[0] of the text
\* parsed as JSON when that is set; otherwise the string when the text is a
\* JSON string; otherwise, for every other text, valid JSON included, the
\* first absolute http(s) URL the pattern finds in the text; and null only
\* when there is none.
C28_ExtractFallsBack ==
    ExtractApplied =>
        LET text == tb.manifestContent
            parsed == JSONParse(text)
            first == IF parsed = SyntaxError THEN Undefined
                     ELSE Index0(Get(parsed, <<"u", "r", "l", "s">>))
        IN  tb.streamUrl =
                IF Truthy(first) THEN first
                ELSE IF parsed # SyntaxError /\ parsed.t = "string" THEN parsed
                ELSE UrlMatch(text)

----------------------------------------------------------------------------
(* Properties of the DASH downloader *)

\* the SegmentTemplate downloadDashStream works with: that of the first
\* Representation of the first AdaptationSet of the first Period, else that
\* of the AdaptationSet; undefined without a Representation
ChosenTemplate ==
    LET adaptationSet ==
            First(Get(First(Get(Get(tb.manifest, "MPD"), "Period")), "AdaptationSet"))
        representation == First(Get(adaptationSet, "Representation"))
    IN  IF ~Truthy(representation) THEN Undefined
        ELSE Or(Get(representation, "SegmentTemplate"),
                Get(adaptationSet, "SegmentTemplate"))

\* the S entries of its SegmentTimeline, <<>> when there is none
TimelineEntries ==
    LET entries == Get(Get(ChosenTemplate, "SegmentTimeline"), "S")
    IN  IF entries.t = "array" THEN entries.items
        ELSE IF entries.t = "object" THEN <<entries>> ELSE <<>>

\* the number an attribute of an element holds, or the default when the
\* element has no such attribute
AttributeOr(element, name, default) ==
    IF Has(element, name) THEN parseInt(Get(element, name)) ELSE default

\* the sum of the repeat counts of timeline entries
RECURSIVE RepeatSum(_)
RepeatSum(entries) ==
    IF entries = <<>> THEN 0
    ELSE AttributeOr(Head(entries), "@_r", 0) + RepeatSum(Tail(entries))

\* downloadDashStream has worked out its segment count
SegmentsCounted == tb.pc \in {"init", "media", "done"} \/ (tb.pc = "failed" /\ tb.requests # <<>>)

\* C29: with a SegmentTimeline in the chosen SegmentTemplate the segment
\* count is the sum of 1 + r over its entries, an entry without r counting
\* as r = 0, whatever duration and timescale the template carries; a single
\* entry with r = 4 gives 5 segments.
C29_TimelineSegmentCount ==
    (tb.pc # "dash" /\ TimelineEntries # <<>>) =>
        /\ SegmentsCounted
        /\ tb.segmentCount = Len(TimelineEntries) + RepeatSum(TimelineEntries)
        /\ (Len(TimelineEntries) = 1 /\ AttributeOr(TimelineEntries[1], "@_r", 0) = 4)
                => tb.segmentCount = 5

\* a timeline of one entry with r = 4 beside a duration of 2000: the five
\* media segments were requested
C29_Witness ==
    /\ tb.pc = "done"
    /\ Len(TimelineEntries) = 1 /\ AttributeOr(TimelineEntries[1], "@_r", 0) = 4
    /\ AttributeOr(ChosenTemplate, "@_duration", 0) = 2000
    /\ tb.segmentCount = 5
    /\ tb.requests = <<"init", 1, 2, 3, 4, 5>>

\* the seconds of a duration attribute of the form PT<seconds>S, as a
\* fraction; 300 for a manifest without the attribute
PresentationSeconds ==
    LET mpd == Get(tb.manifest, "MPD")
        text == Get(mpd, "@_mediaPresentationDuration").v
        numeral == SubSeq(text, 3, Len(text) - 1)
        whole == LeadingDigits(numeral)
        fraction == SubSeq(numeral, Len(whole) + 2, Len(numeral))
    IN  IF ~Has(mpd, "@_mediaPresentationDuration") THEN [num |-> 300, den |-> 1]
        ELSE IF fraction = <<>> THEN [num |-> ParseInt(whole), den |-> 1]
        ELSE [num |-> ParseInt(whole \o fraction), den |-> 10 ^ Len(fraction)]

\* the duration attribute is absent, or has the form PT<seconds>S
PlainSeconds ==
    LET mpd == Get(tb.manifest, "MPD")
        text == Get(mpd, "@_mediaPresentationDuration").v
        numeral == SubSeq(text, 3, Len(text) - 1)
        whole == LeadingDigits(numeral)
        rest == SubSeq(numeral, Len(whole) + 1, Len(numeral))
    IN  \/ ~Has(mpd, "@_mediaPresentationDuration")
        \/ /\ Len(text) >= 4 /\ SubSeq(text, 1, 2) = <<"P", "T">> /\ text[Len(text)] = "S"
           /\ whole # <<>>
           /\ \/ rest = <<>>
              \/ /\ Len(rest) >= 2 /\ Head(rest) = "."
                 /\ LeadingDigits(Tail(rest)) = Tail(rest)

\* C30: without a SegmentTimeline and with a segment duration, the segment
\* count is ceil(seconds / (duration / timescale)), i.e. the least n with
\* n * duration >= seconds * timescale, where seconds is the number in the
\* MPD's PT<seconds>S duration attribute and 300 when the attribute is
\* absent; duration = 2000, timescale = 1000 and PT10S give 5 segments.
C30_EstimatedSegmentCount ==
    LET duration == AttributeOr(ChosenTemplate, "@_duration", 0)
        timescale == AttributeOr(ChosenTemplate, "@_timescale", 1)
        seconds == PresentationSeconds
        n == tb.segmentCount
    IN  (tb.pc # "dash" /\ ~Has(ChosenTemplate, "SegmentTimeline") /\ duration > 0
            /\ PlainSeconds) =>
            /\ SegmentsCounted
            /\ n * duration * seconds.den >= seconds.num * timescale
            /\ (n - 1) * duration * seconds.den < seconds.num * timescale
            /\ (duration = 2000 /\ timescale = 1000 /\ seconds = [num |-> 10, den |-> 1])
                    => n = 5

\* duration = 2000, timescale = 1000 and PT10S without a timeline: the five
\* media segments were requested
C30_Witness ==
    /\ tb.pc = "done"
    /\ ~Has(ChosenTemplate, "SegmentTimeline")
    /\ AttributeOr(ChosenTemplate, "@_duration", 0) = 2000
    /\ AttributeOr(ChosenTemplate, "@_timescale", 1) = 1000
    /\ Get(Get(tb.manifest, "MPD"), "@_mediaPresentationDuration") = JStr(<<"P", "T", "1", "0", "S">>)
    /\ tb.requests = <<"init", 1, 2, 3, 4, 5>>

\* the errors downloadDashStream raises about the manifest
ManifestErrors ==
    {"Invalid DASH manifest: no MPD element", "Invalid DASH manifest: no Period element",
     "Invalid DASH manifest: no AdaptationSet element",
     "Invalid DASH manifest: no Representation element",
     "Invalid DASH manifest: no SegmentTemplate", "Cannot determine segment count"}

\* the manifest lacks MPD, Period, AdaptationSet, Representation or a
\* SegmentTemplate in either place, or its template has neither a
\* SegmentTimeline nor a duration
ManifestDeficient ==
    \/ ~Truthy(ChosenTemplate)
    \/ ~Has(ChosenTemplate, "SegmentTimeline") /\ ~Has(ChosenTemplate, "@_duration")

\* C31: a manifest that lacks MPD, Period, AdaptationSet, Representation or
\* SegmentTemplate (of the Representation, else of the AdaptationSet), or
\* that has neither SegmentTimeline nor segment duration, makes
\* downloadDashStream fail with a manifest error without any segment
\* request, and the download that awaits it ends in error with no file
\* written and no cache row.
C31_ManifestErrorIsFatal ==
    (tb.pc # "dash" /\ ManifestDeficient) =>
        /\ tb.pc = "failed" /\ tb.error \in ManifestErrors
        /\ tb.requests = <<>>
        /\ disk = {} /\ filesTable = {}
        /\ calls[1].pc \in {"fetchBuffer", "done"}
        /\ calls[1].pc = "done" => calls[1].status = "error"

\* a manifest whose AdaptationSet has a SegmentTemplate but no
\* Representation: the download has ended in error
C31_Witness ==
    /\ tb.pc = "failed"
    /\ tb.error = "Invalid DASH manifest: no Representation element"
    /\ tb.requests = <<>>
    /\ calls[1].pc = "done" /\ calls[1].status = "error"
    /\ disk = {} /\ filesTable = {}

\* C32: the initialization segment is the first request of
\* downloadDashStream, and no media segment is requested before its
\* response was read; when that request fails or is answered not ok the
\* call fails, the download that awaits it ends in error, and no media
\* segment is requested then or later.
C32_InitSegmentFirst ==
    /\ [](/\ tb.requests # <<>> => tb.requests[1] = "init"
          /\ tb.pc = "init" => tb.requests = <<"init">>
          /\ Len(tb.requests) > 1 => (tb.parts # <<>> /\ tb.parts[1] = "init")
          /\ tb.error = "Failed to download init segment" =>
                /\ tb.pc = "failed" /\ tb.requests = <<"init">> /\ tb.parts = <<>>
                /\ calls[1].pc = "done" => calls[1].status = "error")
    /\ [][tb.pc = "failed" => (tb'.pc = "failed" /\ tb'.requests = tb.requests)]_vars

\* the initialization segment of a manifest of five media segments could
\* not be fetched, and the download has ended
C32_Witness ==
    /\ tb.error = "Failed to download init segment"
    /\ tb.segmentCount = 5 /\ tb.requests = <<"init">>
    /\ calls[1].pc = "done" /\ calls[1].status = "error"

\* the segment numbers from the first on, n of them
SegmentNumbers(first, n) == [k \in 1..n |-> first + k - 1]

\* C33: once the initialization segment was fetched, downloadDashStream
\* requests the segment numbers startNumber .. startNumber + count - 1 once
\* each, in ascending order, the next one only when the one before has
\* settled; a segment whose request fails or is answered not ok is left
\* out, is not requested again, and neither stops the following requests
\* nor makes the call fail.
C33_SegmentsInOrder ==
    /\ [](/\ tb.parts # <<>> =>
                /\ Len(tb.requests) - 1 <= tb.segmentCount
                /\ Tail(tb.requests) = SegmentNumbers(tb.startNumber, Len(tb.requests) - 1)
          /\ tb.pc = "media" => Len(tb.requests) = tb.i + 2
          /\ tb.pc = "done" => Tail(tb.requests) = SegmentNumbers(tb.startNumber, tb.segmentCount))
    /\ [][tb.pc = "media" =>
            \/ /\ tb'.pc = "media"
               /\ tb'.requests = Append(tb.requests, tb.requests[Len(tb.requests)] + 1)
            \/ /\ tb'.pc = "done"
               /\ tb'.requests = tb.requests]_tb

\* three segments from number 1, the second of which could not be fetched:
\* the third was requested and the download has written its file
C33_Witness ==
    /\ tb.pc = "done" /\ tb.startNumber = 1
    /\ tb.requests = <<"init", 1, 2, 3>>
    /\ tb.parts = <<"init", 1, 3>>
    /\ calls[1].pc = "done" /\ calls[1].status = "downloaded"

\* the numbers among the first n media requests that were answered ok
RECURSIVE FetchedSegments(_, _, _)
FetchedSegments(requests, responses, n) ==
    IF n = 0 THEN <<>>
    ELSE LET before == FetchedSegments(requests, responses, n - 1)
         IN  IF responses[n] THEN Append(before, requests[n + 1]) ELSE before

\* C34: the parts that downloadDashStream concatenates are the
\* initialization segment followed by the media segments whose request was
\* answered ok, in ascending order of their number and with nothing in the
\* place of a skipped segment, so there are 1 + (number of ok media
\* requests) parts.
C34_BufferIsInitThenFetched ==
    (tb.pc \in {"media", "done"}) =>
        /\ tb.parts = <<"init">> \o FetchedSegments(tb.requests, tb.responses, Len(tb.responses))
        /\ Len(tb.parts) = 1 + Cardinality({k \in 1..Len(tb.responses) : tb.responses[k]})
        /\ \A k \in 2..(Len(tb.parts) - 1) : tb.parts[k] < tb.parts[k + 1]
        /\ tb.pc = "done" => Len(tb.responses) = tb.segmentCount

\* four segments from number 1 of which the first and the third were skipped
C34_Witness ==
    /\ tb.pc = "done"
    /\ tb.requests = <<"init", 1, 2, 3, 4>>
    /\ tb.responses = <<FALSE, TRUE, FALSE, TRUE>>
    /\ tb.parts = <<"init", 2, 4>>
    /\ calls[1].pc = "done" /\ calls[1].status = "downloaded"

----------------------------------------------------------------------------
(* Properties of the listen tracker *)

\* C38: between an onTrackChange and the next onTrackChange or
\* onPlaybackStop a listen is logged at most once, and for the track of that
\* period, however onPause, onResume for the same track and the ticks of the
\* timer interleave; at most one interval timer is active at any time; after
\* onPlaybackStop or onTrackChange no tick of an earlier timer logs a listen.
C38_OneListenPerTrack ==
    LET listens == em.listens IN
    /\ \A i, j \in 1..Len(listens) : i # j => listens[i].period # listens[j].period
    /\ \A i \in 1..Len(listens) :
            /\ listens[i].period \in 1..Len(em.periods)
            /\ listens[i].trackId # ""
            /\ listens[i].trackId = em.periods[listens[i].period]
            /\ listens[i].timerPeriod = listens[i].period
    /\ Cardinality(em.timers) <= 1
    /\ \A t \in em.timers : t.id = em.timer /\ t.period = Len(em.periods)
    /\ em.logged => em.timers = {}

\* track a reached its threshold of two seconds over a pause, on the second
\* timer, and after the change to track b a second listen was logged
C38_Witness ==
    /\ Len(em.listens) = 2
    /\ em.listens[1].trackId = "a" /\ em.listens[2].trackId = "b"
    /\ em.created = 3 /\ em.timers = {} /\ em.logged

----------------------------------------------------------------------------
(* Properties of the index under concurrent checks and downloads *)

\* the rows that a step takes out of the index without putting a row of the
\* same track and quality in their place
RowsDeleted ==
    {r \in filesTable : ~\E n \in filesTable' :
                            n.track_id = r.track_id /\ n.quality = r.quality}

\* C35: checkCache and checkAnyCache delete a row only when the row's file
\* is absent at the moment of the deletion; whatever the interleaving with
\* downloads of the same key, a row that saveCache wrote for a file that is
\* on disk is not removed by a check that read the index earlier.
C35_StaleCheckSparesLiveRows ==
    [][\A r \in RowsDeleted : r.file_path \notin disk /\ r.file_path \notin disk']_vars

\* the paths to which an fs.writeFile of a download is under way
PathsBeingWritten ==
    {calls[c].filePath : c \in {d \in Calls : /\ calls[d].method = "downloadTrack"
                                              /\ calls[d].pc = "writeFile"}}

\* C36: a row whose file exists points to a file whose write has completed:
\* a row is saved only once the write of its own file has ended, and no
\* download is writing to a path to which a row with an existing file
\* points, so that a file resolved through the index is never read while it
\* is written.
C36_RowsPointToWrittenFiles ==
    /\ [](\A r \in filesTable : r.file_path \in disk => r.file_path \notin PathsBeingWritten)
    /\ [][\A r \in filesTable' \ filesTable : r.file_path \in disk']_vars

\* C37: when the file that the cache resolution of a Stream request found
\* is gone by the time streamFile stats it, the request is answered 404, not
\* 500, and no byte of the track is sent.
C37_VanishedFileIsNotFound ==
    /\ [][(sr.pc = "stat" /\ sr.filePath \notin disk /\ sr' # sr) =>
            /\ sr'.pc = "done" /\ sr'.status = 404 /\ sr'.error = "Track not found"
            /\ sr'.body = {} /\ sr'.contentLength = -1]_vars
    /\ [](sr.status # 500)
    /\ []((sr.pc = "done" /\ sr.route = "stream" /\ sr.filePath # NoPath /\ sr.status = 404) =>
            /\ calls[sr.call].status = "cached" /\ calls[sr.call].path = sr.filePath
            /\ sr.filePath \notin disk
            /\ sr.body = {})

\* a ranged GET whose file was found by the exact lookup and then removed
C37_Witness ==
    /\ sr.pc = "done" /\ sr.route = "stream" /\ sr.method = "GET"
    /\ sr.header # NoRange
    /\ sr.status = 404 /\ sr.error = "Track not found" /\ sr.body = {}
    /\ calls[sr.call].status = "cached" /\ calls[sr.call].path = Candidate("1", 0)
    /\ calls[sr.call].resolvedQuality = "HI_RES_LOSSLESS"
    /\ Candidate("1", 0) \notin disk /\ deletes = 1
    /\ Cardinality(filesTable) = 3

----------------------------------------------------------------------------
(* Properties of downloads of distinct keys *)

\* the (trackId, quality) key of a call
KeyOf(r) == <<r.trackId, r.resolvedQuality>>

\* C24: a downloadTrack call for key K is independent of every other key: a
\* step of the call adds and removes no ledger entry but that of K, returns
\* 'downloading' only if a download of K itself is in flight, never because
\* of the entry of another key, and creates, updates and deletes no cache
\* row but that of K.
C24_DistinctKeysIndependent ==
    [][\A c \in Calls :
        (calls'[c].method = "downloadTrack" /\ calls'[c] # calls[c]) =>
            LET r == calls'[c] IN
            /\ \A k \in (activeDownloads \ activeDownloads') \cup (activeDownloads' \ activeDownloads) :
                    k = getDownloadKey(r.trackId, r.resolvedQuality)
            /\ (r.status = "downloading" /\ calls[c].status # "downloading") =>
                    \E d \in Calls \ {c} : InFetch(d) /\ KeyOf(calls[d]) = KeyOf(r)
            /\ \A row \in (filesTable \ filesTable') \cup (filesTable' \ filesTable) :
                    /\ row.track_id = normalizeTrackId(r.trackId)
                    /\ row.quality = r.resolvedQuality]_vars

----------------------------------------------------------------------------
(* APIService.fetchWithRetry: one call, request by request *)

NoError == [attempt |-> 0, kind |-> "none"]
\* new Error(`All API instances failed for: ${relativePath}`)
AllInstancesFailed == [attempt |-> 0, kind |-> "allInstancesFailed"]

\* how an attempt can end
FetchOutcomes == {"ok", "429", "401", "5xx", "4xx", "network", "abort"}
\* what response.clone().json() of a 401 gives: subStatus 11002, another
\* body, no JSON at all, or an abort while the body is read
JsonOutcomes == {"tokenInvalid", "401", "parseError", "abort"}

maxTotalAttempts(n) == n * 2

\* mutant: a server error retries the same instance
InstanceIndexStuckOn5xx(kind, instanceIndex) ==
    IF kind = "5xx" THEN instanceIndex ELSE instanceIndex + 1

\* instanceIndex++ in every branch that does not return or rethrow
InstanceIndexAfter(kind, instanceIndex) == instanceIndex + 1

\* mutant: every failed attempt is remembered
LastErrorAlways(kind, attempt, lastError) == [attempt |-> attempt, kind |-> kind]

\* lastError after a failed attempt: set for a non-2xx status that is not
\* 429, token-invalid 401 or >= 500 (line 56) and for a caught exception
\* (line 60); left alone otherwise
LastErrorAfter(kind, attempt, lastError) ==
    IF kind \in {"4xx", "401", "network", "parseError"}
    THEN [attempt |-> attempt, kind |-> kind]
    ELSE lastError

\* the for loop's next iteration: the next request, or the final throw
NextAttempt(f) ==
    IF f.attempt + 1 > maxTotalAttempts(f.n)
    THEN [f EXCEPT !.pc = "done",
                   !.result = [type |-> "throw",
                               error |-> IF f.lastError # NoError
                                         THEN f.lastError ELSE AllInstancesFailed]]
    ELSE [f EXCEPT !.pc = "fetch", !.attempt = @ + 1,
                   !.requests = Append(@, f.instanceIndex % f.n)]

\* a failed attempt of the given kind is accounted for
Failed(f, kind) ==
    [f EXCEPT !.outcomes = Append(@, kind),
              !.instanceIndex = InstanceIndexAfter(kind, @),
              !.lastError = LastErrorAfter(kind, f.attempt, @)]

\* mutant: an abort is handled like any other network error
RethrowRetried(f) == [Failed(f, "abort") EXCEPT !.pc = "delay"]

Rethrow(f) ==
    [f EXCEPT !.pc = "done", !.outcomes = Append(@, "abort"),
              !.result = [type |-> "throw",
                          error |-> [attempt |-> f.attempt, kind |-> "abort"]]]

FetchWithRetry(n) ==
    /\ fw.pc = "init"
    /\ fw' = IF n = 0
             THEN [fw EXCEPT !.pc = "done", !.n = 0,
                             !.result = [type |-> "throw",
                                         error |-> [attempt |-> 0, kind |-> "noInstances"]]]
             ELSE NextAttempt([fw EXCEPT !.n = n])
    /\ UNCHANGED coordVars

\* the fetch of the current attempt settles
FetchSettles(outcome) ==
    /\ fw.pc = "fetch"
    /\ fw' = CASE outcome = "ok" ->
                    [fw EXCEPT !.pc = "done", !.outcomes = Append(@, "ok"),
                               !.result = [type |-> "response", attempt |-> fw.attempt]]
               [] outcome = "429" -> [Failed(fw, "429") EXCEPT !.pc = "delay"]
               [] outcome = "401" -> [fw EXCEPT !.pc = "json"]
               [] outcome = "5xx" -> NextAttempt(Failed(fw, "5xx"))
               [] outcome = "4xx" -> NextAttempt(Failed(fw, "4xx"))
               [] outcome = "network" -> [Failed(fw, "network") EXCEPT !.pc = "delay"]
               [] outcome = "abort" -> Rethrow(fw)
    /\ UNCHANGED coordVars

\* the body of a 401 response is read
JsonSettles(outcome) ==
    /\ fw.pc = "json"
    /\ fw' = CASE outcome = "tokenInvalid" -> NextAttempt(Failed(fw, "tokenInvalid"))
               [] outcome = "401" -> NextAttempt(Failed(fw, "401"))
               [] outcome = "parseError" -> [Failed(fw, "parseError") EXCEPT !.pc = "delay"]
               [] outcome = "abort" -> Rethrow(fw)
    /\ UNCHANGED coordVars

\* delay(500) or delay(200) elapses
DelayDone ==
    /\ fw.pc = "delay"
    /\ fw' = NextAttempt(fw)
    /\ UNCHANGED coordVars

InitRetry ==
    /\ em = [pc |-> "off"]
    /\ calls = [c \in Calls |-> IdleCall]
    /\ activeDownloads = {}
    /\ activeMetadataRefresh = {}
    /\ filesTable = {}
    /\ disk = {}
    /\ downloadQuality = PASSTHROUGH
    /\ metadata = {}
    /\ now = 0
    /\ deletes = 0
    /\ prefChanges = 0
    /\ fw = [pc |-> "init", n |-> 0, attempt |-> 0, instanceIndex |-> 0,
             lastError |-> NoError, requests |-> <<>>, outcomes |-> <<>>,
             result |-> [type |-> "none"]]
    /\ rp = [pc |-> "off"]
    /\ sr = [pc |-> "off"]
    /\ tb = [pc |-> "off"]

NextRetry ==
    \/ \E n \in 0..MaxInstances : FetchWithRetry(n)
    \/ \E o \in FetchOutcomes : FetchSettles(o)
    \/ \E o \in JsonOutcomes : JsonSettles(o)
    \/ DelayDone

RetrySpec == InitRetry /\ [][NextRetry]_vars

----------------------------------------------------------------------------
(* Properties of fetchWithRetry *)

\* C25: an abort of a request of fetchWithRetry, or of the reading of a 401
\* body, is re-raised at once: the call ends with that abort as its error, the
\* abort is the outcome of its last request, and no request follows it,
\* however many attempts were left.
C25_AbortRethrown ==
    /\ [](\A k \in 1..Len(fw.outcomes) :
            fw.outcomes[k] = "abort" =>
                /\ k = Len(fw.outcomes) /\ k = Len(fw.requests)
                /\ fw.pc = "done"
                /\ fw.result = [type |-> "throw",
                                error |-> [attempt |-> k, kind |-> "abort"]])
    /\ [][fw.pc = "done" => fw' = fw]_vars

\* an abort of the first request, with three more attempts available
C25_Witness ==
    /\ fw.pc = "done" /\ fw.n = 2
    /\ fw.outcomes = <<"abort">> /\ Len(fw.requests) = 1

\* C8: at most 2*N requests; the k-th goes to instance (k-1) mod N; the first
\* 2xx response is returned and no request follows it.
C8_RoundRobin ==
    /\ Len(fw.requests) <= 2 * fw.n
    /\ \A k \in 1..Len(fw.requests) : fw.requests[k] = (k - 1) % fw.n
    /\ \A k \in 1..Len(fw.outcomes) :
            fw.outcomes[k] = "ok" =>
                /\ k = Len(fw.requests)
                /\ fw.pc = "done"
                /\ fw.result = [type |-> "response", attempt |-> k]
    /\ (fw.pc = "done" /\ fw.result.type = "response") =>
            fw.outcomes[Len(fw.outcomes)] = "ok"

\* the third request, back on the first of two instances, is answered 2xx
C8_Witness ==
    /\ fw.pc = "done" /\ fw.n = 2
    /\ fw.requests = <<0, 1, 0>>
    /\ fw.result = [type |-> "response", attempt |-> 3]

\* all 2*N attempts failed and none was aborted
Exhausted ==
    /\ fw.pc = "done" /\ fw.n >= 1
    /\ fw.result.type = "throw"
    /\ Len(fw.outcomes) = 2 * fw.n
    /\ fw.outcomes[2 * fw.n] # "abort"

\* C9 as claimed: the error raised after exhaustion is the failure of the
\* most recent failed attempt, whatever its kind.
C9_LastObservedError ==
    Exhausted =>
        fw.result.error = [attempt |-> 2 * fw.n, kind |-> fw.outcomes[2 * fw.n]]

\* C9 as amended: the error raised after exhaustion is the failure of the
\* most recent attempt that ended in a non-2xx status other than 429,
\* token-invalid 401 and >= 500, or in an exception; with no such attempt it
\* is a generic "All API instances failed" error.
RememberedAttempts ==
    {k \in 1..Len(fw.outcomes) : fw.outcomes[k] \in {"4xx", "401", "network", "parseError"}}

C9_LastRememberedError ==
    Exhausted =>
        fw.result.error =
            IF RememberedAttempts = {}
            THEN [attempt |-> 0, kind |-> "allInstancesFailed"]
            ELSE LET last == CHOOSE k \in RememberedAttempts :
                                \A j \in RememberedAttempts : j <= k
                 IN  [attempt |-> last, kind |-> fw.outcomes[last]]

\* exhaustion whose last attempt was a server error after an earlier 4xx
C9_Witness ==
    /\ Exhausted
    /\ fw.outcomes[2 * fw.n] = "5xx"
    /\ fw.result.error.kind = "4xx"
    /\ fw.result.error.attempt < 2 * fw.n

====
